---- MODULE Spec2Model ----
(***************************************************************************)
(* Signal state machines of tron-signal (package machine) and their        *)
(* manager.  Two specifications share the pure operators New, ResetRuntime *)
(* and Process:                                                            *)
(*   SpecMachine  one Machine driven by New / ResetRuntime / Process, with *)
(*                observer variables recording what the calls returned;    *)
(*   Spec         a Manager holding up to two machines, driven by Add,     *)
(*                Remove, ResetAllRuntime and ProcessBlock.                *)
(* The time.Time argument of Process is copied into the signal unchanged   *)
(* and read by nothing, so it is left out of the signal record.            *)
(***************************************************************************)
EXTENDS Integers, Sequences, FiniteSets, TLC

\* the value of a variable in the specifications that do not drive it
Unused == "unused"

\* ---------------------------------------------------------------- bounds
MaxN == 2
MaxOffset == 2
MaxHeight == 4
\* the Manager specification draws its machines and blocks from smaller sets
MgrMaxN == 2
MgrMaxHeight == 2
\* the ring buffer: capacity handed to NewRingBuffer, heights of the blocks
RingCap == 2
RingMaxHeight == 2
MaxFetchers == 2
MaxHashLen == 3
MaxBlocks == 3
MainMaxHeight == 3
\* the rule switches: blocks between them; the dedup window: keys recorded
\* after the ring is full
SwitchMaxBlocks == 2
MaxEvictions == 2
\* the subscribers and the signals of the hub; the runs of the process
MaxClients == 2
MaxSignals == 2
MaxRuns == 6
\* the listener: handlers of PUT /api/apikey, loops started, blocks fetched
MaxCalls == 3
MaxLoops == 2
MaxTicks == 2
\* the ReplaceAll calls beside one FetchAny
MaxReplaces == 2

\* ------------------------------------------------------------ data types
ON == TRUE
OFF == FALSE
States == {ON, OFF}
Heights == 1..MaxHeight
MachineIDs == {"m1", "m2"}

Config == [ID : MachineIDs,
           TriggerState : States,
           TriggerCount : 0..MaxN,
           HitEnabled : BOOLEAN,
           HitExpect : States,
           HitOffset : 0..MaxOffset,
           Enabled : BOOLEAN]

\* the configurations handed to Manager.Add: a HIT, when enabled, expects OFF
\* one block after the trigger, so that with the two trigger states both a
\* HIT expecting the trigger state and one expecting its reverse occur
ManagerConfig == [ID : MachineIDs,
                  TriggerState : States,
                  TriggerCount : 1..MgrMaxN,
                  HitEnabled : BOOLEAN,
                  HitExpect : {OFF},
                  HitOffset : {1},
                  Enabled : BOOLEAN]

\* the zero value Go gives the fields the literals of New / ResetRuntime omit
Runtime == [Count |-> 0, WaitingReverse |-> TRUE, BaseHeight |-> 0,
            HitWaiting |-> FALSE, HitTarget |-> 0]

\* a nil *Signal
Nil == [MachineID |-> "", Type |-> "nil", Height |-> 0]

Signal(id, type, height) == [MachineID |-> id, Type |-> type, Height |-> height]

\* the last n elements of a sequence
LastN(seq, n) ==
    IF Len(seq) <= n THEN seq ELSE SubSeq(seq, Len(seq) - n + 1, Len(seq))

\* ------------------------------------------------------------- Machine
\* New leaving the reverse gate open, so that counting starts at once
NewGateOpen(cfg) ==
    [Config |-> cfg, Runtime |-> [Runtime EXCEPT !.WaitingReverse = FALSE]]

New(cfg) == [Config |-> cfg, Runtime |-> Runtime]

\* ResetRuntime clearing the counter and the gate but not the pending HIT
ResetRuntimeKeepHit(m) ==
    [m EXCEPT !.Runtime = [Runtime EXCEPT !.HitWaiting = m.Runtime.HitWaiting,
                                          !.HitTarget = m.Runtime.HitTarget]]

ResetRuntime(m) == [m EXCEPT !.Runtime = Runtime]

\* the HIT returned without clearing HitWaiting
HitPhaseNoClear(m, height, state) ==
    IF height = m.Runtime.HitTarget /\ state = m.Config.HitExpect
    THEN [m |-> m, sig |-> Signal(m.Config.ID, "HIT", height)]
    ELSE IF height >= m.Runtime.HitTarget
         THEN [m |-> [m EXCEPT !.Runtime.HitWaiting = FALSE], sig |-> Nil]
         ELSE [m |-> m, sig |-> Nil]

\* HitWaiting cleared on a HIT and past the target only, not on a miss
HitPhaseKeepOnMiss(m, height, state) ==
    IF height = m.Runtime.HitTarget /\ state = m.Config.HitExpect
    THEN [m |-> [m EXCEPT !.Runtime.HitWaiting = FALSE],
          sig |-> Signal(m.Config.ID, "HIT", height)]
    ELSE IF height > m.Runtime.HitTarget
         THEN [m |-> [m EXCEPT !.Runtime.HitWaiting = FALSE], sig |-> Nil]
         ELSE [m |-> m, sig |-> Nil]

\* without the "observe once" clearing: the HIT waits for its exact height
HitPhaseNoSkip(m, height, state) ==
    IF height = m.Runtime.HitTarget
    THEN IF state = m.Config.HitExpect
         THEN [m |-> [m EXCEPT !.Runtime.HitWaiting = FALSE],
               sig |-> Signal(m.Config.ID, "HIT", height)]
         ELSE [m |-> [m EXCEPT !.Runtime.HitWaiting = FALSE], sig |-> Nil]
    ELSE [m |-> m, sig |-> Nil]

\* the HIT waiting block of Process, entered when Runtime.HitWaiting
HitPhase(m, height, state) ==
    IF height = m.Runtime.HitTarget /\ state = m.Config.HitExpect
    THEN [m |-> [m EXCEPT !.Runtime.HitWaiting = FALSE],
          sig |-> Signal(m.Config.ID, "HIT", height)]
    ELSE IF height >= m.Runtime.HitTarget
         THEN [m |-> [m EXCEPT !.Runtime.HitWaiting = FALSE], sig |-> Nil]
         ELSE [m |-> m, sig |-> Nil]

\* the waiting-for-reverse block of Process, entered when WaitingReverse
ReversePhase(m, state) ==
    IF state # m.Config.TriggerState
    THEN [m |-> [m EXCEPT !.Runtime.WaitingReverse = FALSE,
                          !.Runtime.Count = 0],
          sig |-> Nil]
    ELSE [m |-> m, sig |-> Nil]

\* the counting block of Process
CountPhase(m, state) ==
    IF state = m.Config.TriggerState
    THEN [m EXCEPT !.Runtime.Count = @ + 1]
    ELSE [m EXCEPT !.Runtime.Count = 0]

\* the trigger that does not close the reverse gate again
TriggerPhaseNoRearm(m, height) ==
    IF m.Runtime.Count >= m.Config.TriggerCount
    THEN [m |-> [m EXCEPT !.Runtime.Count = 0,
                          !.Runtime.HitWaiting =
                              IF m.Config.HitEnabled /\ m.Config.HitOffset > 0
                              THEN TRUE ELSE @,
                          !.Runtime.HitTarget =
                              IF m.Config.HitEnabled /\ m.Config.HitOffset > 0
                              THEN height + m.Config.HitOffset ELSE @],
          sig |-> Signal(m.Config.ID, "TRIGGER", height)]
    ELSE [m |-> m, sig |-> Nil]

\* the trigger condition of Process, with the HIT arming
TriggerPhase(m, height) ==
    IF m.Runtime.Count >= m.Config.TriggerCount
    THEN [m |-> [m EXCEPT !.Runtime.Count = 0,
                          !.Runtime.WaitingReverse = TRUE,
                          !.Runtime.HitWaiting =
                              IF m.Config.HitEnabled /\ m.Config.HitOffset > 0
                              THEN TRUE ELSE @,
                          !.Runtime.HitTarget =
                              IF m.Config.HitEnabled /\ m.Config.HitOffset > 0
                              THEN height + m.Config.HitOffset ELSE @],
          sig |-> Signal(m.Config.ID, "TRIGGER", height)]
    ELSE [m |-> m, sig |-> Nil]

\* Process without the waiting-for-reverse block
ProcessNoGate(m, height, state) ==
    IF ~m.Config.Enabled THEN [m |-> m, sig |-> Nil]
    ELSE IF m.Runtime.HitWaiting THEN HitPhase(m, height, state)
    ELSE TriggerPhase(CountPhase(m, state), height)

\* Process counting before the waiting-for-reverse block returns
ProcessCountFirst(m, height, state) ==
    IF ~m.Config.Enabled THEN [m |-> m, sig |-> Nil]
    ELSE IF m.Runtime.HitWaiting THEN HitPhase(m, height, state)
    ELSE IF m.Runtime.WaitingReverse
         THEN IF state # m.Config.TriggerState
              THEN ReversePhase(m, state)
              ELSE [m |-> CountPhase(m, state), sig |-> Nil]
    ELSE TriggerPhase(CountPhase(m, state), height)

\* a mutant of Process: Config.Enabled is not tested
ProcessDisabledToo(m, height, state) ==
    IF m.Runtime.HitWaiting THEN HitPhase(m, height, state)
    ELSE IF m.Runtime.WaitingReverse THEN ReversePhase(m, state)
    ELSE TriggerPhase(CountPhase(m, state), height)

Process(m, height, state) ==
    IF ~m.Config.Enabled THEN [m |-> m, sig |-> Nil]
    ELSE IF m.Runtime.HitWaiting THEN HitPhase(m, height, state)
    ELSE IF m.Runtime.WaitingReverse THEN ReversePhase(m, state)
    ELSE TriggerPhase(CountPhase(m, state), height)

NoArg == [height |-> 0, state |-> OFF]

\* ------------------------------------------------------------- Manager
VARIABLES
    machines,  \* Manager.machines: map from machine id to *Machine
    mcall,     \* the last call on the manager
    marg,      \* the (height, state) of the last ProcessBlock call
    signals,   \* the []*Signal the last ProcessBlock call returned
    lost,      \* per id: target of a HIT that was pending when a reset cleared it
    padd       \* the Config of the last Add and what it found under that id

gvars == <<machines, mcall, marg, signals, lost, padd>>

\* every order in which a range over the Go map can visit the keys
Orders(keys) ==
    {o \in [1..Cardinality(keys) -> keys] :
        \A i, j \in 1..Cardinality(keys) : i # j => o[i] # o[j]}

\* the elements of seq that are not nil, in order
RECURSIVE NonNil(_)
NonNil(seq) ==
    IF seq = <<>> THEN <<>>
    ELSE IF Head(seq) = Nil THEN NonNil(Tail(seq))
    ELSE <<Head(seq)>> \o NonNil(Tail(seq))

NewManager == <<>>

NoLost == [id \in MachineIDs |-> 0]

\* the last call was not Add
NoAdd == [cfg |-> "none", found |-> "none"]

\* what Add(cfg) finds in the map ms: no machine under cfg.ID ("absent"), one
\* in its initial runtime ("initial") or one that has moved on ("running")
Found(ms, cfg) ==
    IF cfg.ID \notin DOMAIN ms THEN "absent"
    ELSE IF ms[cfg.ID].Runtime = Runtime THEN "initial" ELSE "running"

\* Add storing the new configuration into the machine that exists already,
\* which keeps its runtime
AddKeepRuntime(cfg) ==
    /\ machines' = [id \in DOMAIN machines \cup {cfg.ID} |->
                        IF id # cfg.ID THEN machines[id]
                        ELSE IF id \in DOMAIN machines
                             THEN [machines[id] EXCEPT !.Config = cfg]
                             ELSE New(cfg)]
    /\ mcall' = "Add"
    /\ marg' = NoArg
    /\ signals' = <<>>
    /\ lost' = [lost EXCEPT ![cfg.ID] = 0]
    /\ padd' = [cfg |-> cfg, found |-> Found(machines, cfg)]

Add(cfg) ==
    /\ machines' = [id \in DOMAIN machines \cup {cfg.ID} |->
                        IF id = cfg.ID THEN New(cfg) ELSE machines[id]]
    /\ mcall' = "Add"
    /\ marg' = NoArg
    /\ signals' = <<>>
    /\ lost' = [lost EXCEPT ![cfg.ID] = 0]
    /\ padd' = [cfg |-> cfg, found |-> Found(machines, cfg)]

Remove(id) ==
    /\ machines' = [i \in DOMAIN machines \ {id} |-> machines[i]]
    /\ mcall' = "Remove"
    /\ marg' = NoArg
    /\ signals' = <<>>
    /\ lost' = [lost EXCEPT ![id] = 0]
    /\ padd' = NoAdd

ResetAllRuntime ==
    /\ machines' = [id \in DOMAIN machines |-> ResetRuntime(machines[id])]
    /\ mcall' = "ResetAllRuntime"
    /\ marg' = NoArg
    /\ signals' = <<>>
    /\ lost' = [id \in MachineIDs |->
                   IF id \in DOMAIN machines /\ machines[id].Runtime.HitWaiting
                   THEN machines[id].Runtime.HitTarget ELSE lost[id]]
    /\ padd' = NoAdd

ProcessBlock(height, state) ==
    \E order \in Orders(DOMAIN machines) :
        LET r == [id \in DOMAIN machines |-> Process(machines[id], height, state)]
        IN /\ machines' = [id \in DOMAIN machines |-> r[id].m]
           /\ mcall' = "ProcessBlock"
           /\ marg' = [height |-> height, state |-> state]
           /\ signals' = NonNil([i \in 1..Len(order) |-> r[order[i]].sig])
           /\ lost' = [id \in MachineIDs |->
                          IF id \in DOMAIN machines /\ r[id].sig.Type = "TRIGGER"
                          THEN 0 ELSE lost[id]]
           /\ padd' = NoAdd

\* --------------------------------------------------------- RingBuffer
\* capacity NewRingBuffer falls back to
DefaultCap == 50

\* block.Block: Height is a decimal string in the source, written here as
\* the number it spells; TimeUnix is read by nothing in the ring
RingHashes == {"aa", "bb"}
RingSources == {"s1", "s2"}
Blocks ==
    {b \in [Height : 1..RingMaxHeight, Hash : RingHashes, SourceID : RingSources] :
        b.SourceID = "s2" => b.Hash = "aa"}

\* the dedup key of a block
Key(b) == [Height |-> b.Height, Hash |-> b.Hash]

NewRingBuffer(capacity) ==
    [cap |-> IF capacity <= 0 THEN DefaultCap ELSE capacity,
     buf |-> <<>>,
     seen |-> {}]

\* the eviction loop of AddIfNew: drop the oldest block and its key while
\* the buffer is longer than cap
RECURSIVE Evict(_)
Evict(r) ==
    IF Len(r.buf) > r.cap
    THEN Evict([r EXCEPT !.buf = SubSeq(@, 1, Len(@) - 1),
                         !.seen = @ \ {Key(r.buf[Len(r.buf)])}])
    ELSE r

\* AddIfNew whose eviction drops the block but leaves its key in seen
AddIfNewKeepSeen(r, b) ==
    IF Key(b) \in r.seen THEN [r |-> r, ok |-> FALSE]
    ELSE [r |-> [r EXCEPT !.buf = IF Len(@) >= r.cap
                                  THEN <<b>> \o SubSeq(@, 1, r.cap - 1)
                                  ELSE <<b>> \o @,
                          !.seen = @ \cup {Key(b)}],
          ok |-> TRUE]

\* a mutant of AddIfNew: the block is appended, oldest first
AddIfNewAtEnd(r, b) ==
    IF Key(b) \in r.seen THEN [r |-> r, ok |-> FALSE]
    ELSE [r |-> [r EXCEPT !.buf = IF Len(@) >= r.cap
                                  THEN SubSeq(@, 2, Len(@)) \o <<b>>
                                  ELSE @ \o <<b>>,
                          !.seen = IF Len(r.buf) >= r.cap
                                   THEN (@ \ {Key(r.buf[1])}) \cup {Key(b)}
                                   ELSE @ \cup {Key(b)}],
          ok |-> TRUE]

AddIfNew(r, b) ==
    IF Key(b) \in r.seen THEN [r |-> r, ok |-> FALSE]
    ELSE [r |-> Evict([r EXCEPT !.buf = <<b>> \o @,
                                !.seen = @ \cup {Key(b)}]),
          ok |-> TRUE]

\* List: a copy of buf, newest first
List(r) == r.buf

\* Reset
RingReset(r) == [r EXCEPT !.buf = <<>>, !.seen = {}]

VARIABLES
    ring,   \* the RingBuffer: [cap, buf, seen]
    rcall,  \* the last call on it
    rarg,   \* the block of the last AddIfNew
    rret,   \* what the last AddIfNew returned
    rlog,   \* keys in the order AddIfNew inserted them since the last Reset
    rprev   \* rlog as it was before the last call

rvars == <<ring, rcall, rarg, rret, rlog, rprev>>

NoBlock == [Height |-> 0, Hash |-> "", SourceID |-> ""]

\* the insertion log keeps the last cap + 1 keys (all keys there are, when
\* that is less)
LogLen(r) ==
    LET keys == Cardinality({Key(b) : b \in Blocks})
    IN (IF r.cap > keys THEN keys ELSE r.cap) + 1

RStart ==
    /\ ring \in {NewRingBuffer(c) : c \in {0, RingCap}}
    /\ rcall = "NewRingBuffer"
    /\ rarg = NoBlock
    /\ rret = FALSE
    /\ rlog = <<>>
    /\ rprev = <<>>

RAddIfNew(b) ==
    LET res == AddIfNew(ring, b)
    IN /\ ring' = res.r
       /\ rcall' = "AddIfNew"
       /\ rarg' = b
       /\ rret' = res.ok
       /\ rlog' = IF res.ok THEN LastN(Append(rlog, Key(b)), LogLen(ring))
                  ELSE rlog
       /\ rprev' = rlog

RReset ==
    /\ ring' = RingReset(ring)
    /\ rcall' = "Reset"
    /\ rarg' = NoBlock
    /\ rret' = FALSE
    /\ rlog' = <<>>
    /\ rprev' = rlog

\* ------------------------------------------------------- source adapters
\* Go strings that the code inspects character by character are sequences
\* of one-character strings; a source.Block carries Height as such a string.
NilBlock == [Height |-> <<>>, Hash |-> "", Source |-> "nil"]
NoErr == "nil"

DecDigits == <<"0", "1", "2", "3", "4", "5", "6", "7", "8", "9">>

\* the value of one hexadecimal character, -1 for any other character
HexValue(c) ==
    CASE c = "0" -> 0 [] c = "1" -> 1 [] c = "2" -> 2 [] c = "3" -> 3
      [] c = "4" -> 4 [] c = "5" -> 5 [] c = "6" -> 6 [] c = "7" -> 7
      [] c = "8" -> 8 [] c = "9" -> 9
      [] c \in {"a", "A"} -> 10 [] c \in {"b", "B"} -> 11
      [] c \in {"c", "C"} -> 12 [] c \in {"d", "D"} -> 13
      [] c \in {"e", "E"} -> 14 [] c \in {"f", "F"} -> 15
      [] OTHER -> -1

\* the loop of hexToInt64: 0 as soon as a character is not hexadecimal
RECURSIVE HexLoop(_, _, _)
HexLoop(h, i, v) ==
    IF i > Len(h) THEN v
    ELSE IF HexValue(h[i]) < 0 THEN 0
    ELSE HexLoop(h, i + 1, v * 16 + HexValue(h[i]))

\* hexToInt64: an optional 0x / 0X prefix, then hexadecimal digits (the
\* strings of RpcNumbers are short enough for int64 not to wrap)
hexToInt64(h) ==
    LET s == IF Len(h) >= 2 /\ SubSeq(h, 1, 2) \in {<<"0", "x">>, <<"0", "X">>}
             THEN SubSeq(h, 3, Len(h)) ELSE h
    IN HexLoop(s, 1, 0)

\* itoa64: the decimal representation of an int64
RECURSIVE Decimal(_)
Decimal(n) ==
    IF n < 10 THEN <<DecDigits[n + 1]>>
    ELSE Decimal(n \div 10) \o <<DecDigits[(n % 10) + 1]>>

itoa64(v) == IF v < 0 THEN <<"-">> \o Decimal(-v) ELSE Decimal(v)

hexToDecString(h) == itoa64(hexToInt64(h))

\* decoded JSON values of a JSON-RPC reply's "result" member
JNil == [t |-> "nil"]
JString(s) == [t |-> "string", s |-> s]
JNumber(n) == [t |-> "float64", n |-> n]
JObject(hash, blockID, number) ==
    [t |-> "object", hash |-> hash, blockID |-> blockID, number |-> number]

\* the "number" members a reply may carry: absent, 0x-hex strings, a string
\* that is not hexadecimal, JSON numbers
RpcNumbers ==
    {JNil, JString(<<"0", "x", "0">>), JString(<<"0", "x", "5">>),
     JString(<<"z", "z">>), JNumber(0), JNumber(5)}

RpcHashes == {"", "ab"}

RpcResults ==
    {JNil} \cup {n \in RpcNumbers : n.t # "nil"}
    \cup {JObject(h, id, n) : h \in RpcHashes, id \in RpcHashes, n \in RpcNumbers}

\* what post returns: a transport error, or the decoded reply
Canceled == "context canceled"
PostErrors == {"net", Canceled}
RpcReplies ==
    {[err |-> e, result |-> JNil] : e \in PostErrors}
    \cup {[err |-> NoErr, result |-> v] : v \in RpcResults}

\* parseBlockObject: hash (or blockID) and number of a block object
parseBlockObject(raw) ==
    LET obj == raw.result
        hash == IF obj.hash # "" THEN obj.hash ELSE obj.blockID
        height == CASE obj.number.t = "string" -> hexToDecString(obj.number.s)
                    [] obj.number.t = "float64" -> itoa64(obj.number.n)
                    [] OTHER -> <<>>
    IN IF obj.t # "object" THEN [b |-> NilBlock, ok |-> FALSE]
       ELSE IF hash = "" \/ height = <<>> THEN [b |-> NilBlock, ok |-> FALSE]
       ELSE [b |-> [Height |-> height, Hash |-> hash, Source |-> "ankr-rpc"],
             ok |-> TRUE]

\* parseHeight: a reply whose result is the height itself
parseHeight(raw) == raw.result.t \in {"string", "float64"}

Failure(e) == [b |-> NilBlock, err |-> e]
Success(b) == [b |-> b, err |-> NoErr]

\* AnkrRpcFetcher.FetchLatest: enabled is cfg.Enabled, allow what the limiter
\* answers, reply1 / reply2 what the two posts return, blockMethod whether
\* the X-RPC-BLOCK-METHOD header is configured
AnkrRpcFetchLatest(enabled, allow, reply1, reply2, blockMethod) ==
    IF ~enabled THEN Failure("disabled")
    ELSE IF ~allow THEN Failure("rate_limited")
    ELSE IF reply1.err # NoErr THEN Failure(reply1.err)
    ELSE IF parseBlockObject(reply1).ok THEN Success(parseBlockObject(reply1).b)
    ELSE IF ~parseHeight(reply1) THEN Failure("rpc_invalid_height")
    ELSE IF ~blockMethod THEN Failure("rpc_missing_block_method")
    ELSE IF reply2.err # NoErr THEN Failure(reply2.err)
    ELSE IF ~parseBlockObject(reply2).ok THEN Failure("rpc_invalid_block")
    ELSE Success(parseBlockObject(reply2).b)

\* TronGrid getnowblock replies: a transport or decoding error, or blockID
\* and block_header.raw_data.number
TronIDs == {"", "cd"}
TronNumbers == {-1, 0, 7}
TronReplies ==
    {[err |-> e, BlockID |-> "", Number |-> 0] : e \in PostErrors}
    \cup {[err |-> NoErr, BlockID |-> id, Number |-> n] :
             id \in TronIDs, n \in TronNumbers}

\* TronGridFetcher.FetchLatest
TronGridFetchLatest(enabled, allow, reply) ==
    IF ~enabled THEN Failure("disabled")
    ELSE IF ~allow THEN Failure("rate_limited")
    ELSE IF reply.err # NoErr THEN Failure(reply.err)
    ELSE IF reply.BlockID = "" \/ reply.Number <= 0 THEN Failure("invalid_block")
    ELSE Success([Height |-> itoa64(reply.Number), Hash |-> reply.BlockID,
                  Source |-> "trongrid"])

\* ------------------------------------------------------------ Dispatcher
\* the results a launched task's FetchLatest can produce; the context error
\* only once the child context is cancelled
RpcOutcomes ==
    {AnkrRpcFetchLatest(TRUE, allow, r1, r2, bm) :
        allow \in BOOLEAN, r1 \in RpcReplies, r2 \in RpcReplies, bm \in BOOLEAN}

TronOutcomes ==
    {TronGridFetchLatest(TRUE, allow, r) : allow \in BOOLEAN, r \in TronReplies}

Outcomes(kind, cancelled) ==
    {o \in (IF kind = "ankr-rpc" THEN RpcOutcomes ELSE TronOutcomes) :
        cancelled \/ o.err # Canceled}

Kinds == {"trongrid", "ankr-rpc"}

\* a Fetcher as the Dispatcher sees it: its kind and Config().Enabled
Fetchers == [kind : Kinds, Enabled : BOOLEAN]

RECURSIVE SeqsUpTo(_, _)
SeqsUpTo(S, n) ==
    IF n = 0 THEN {<<>>}
    ELSE SeqsUpTo(S, n - 1)
         \cup {Append(s, x) : s \in {t \in SeqsUpTo(S, n - 1) : Len(t) = n - 1}, x \in S}

VARIABLES
    fetchers,  \* Dispatcher.fetchers
    dpc,       \* where FetchAny is: "idle", "loop" (its for / select) or "done"
    fs,        \* FetchAny's snapshot
    task,      \* per fetcher of fs: "skipped", "running" or "done"
    ch,        \* the result channel's buffer
    chClosed,  \* the result channel is closed
    arrived,   \* every result sent on the channel, in the order of arrival
    ctxDone,   \* the caller's ctx is cancelled
    cctxDone,  \* the child context cctx is cancelled
    lastErr,   \* FetchAny's lastErr
    dret       \* what FetchAny returned: [b, err]

dvars == <<fetchers, dpc, fs, task, ch, chClosed, arrived, ctxDone, cctxDone,
           lastErr, dret>>

NoReturn == [b |-> NilBlock, err |-> "pending"]

Launched == {i \in 1..Len(fs) : task[i] # "skipped"}

\* NewDispatcher and the Add calls of main: any list of fetchers
DStart ==
    /\ fetchers \in SeqsUpTo(Fetchers, MaxFetchers)
    /\ dpc = "idle"
    /\ fs = <<>> /\ task = <<>>
    /\ ch = <<>> /\ chClosed = FALSE /\ arrived = <<>>
    /\ ctxDone = FALSE /\ cctxDone = FALSE
    /\ lastErr = NoErr
    /\ dret = NoReturn

\* return from FetchAny: the deferred cancel() runs
Return(r) ==
    /\ dpc' = "done"
    /\ dret' = r
    /\ cctxDone' = TRUE

\* FetchAny up to its select loop: snapshot, then one goroutine per enabled
\* fetcher
FetchAnyCall ==
    /\ dpc = "idle"
    /\ fs' = fetchers
    /\ IF Len(fetchers) = 0
       THEN /\ dpc' = "done"
            /\ dret' = Failure("no_sources")
            /\ task' = <<>>
            /\ UNCHANGED cctxDone
       ELSE /\ dpc' = "loop"
            /\ task' = [i \in 1..Len(fetchers) |->
                           IF fetchers[i].Enabled THEN "running" ELSE "skipped"]
            /\ cctxDone' = ctxDone
            /\ UNCHANGED dret
    /\ UNCHANGED <<fetchers, ch, chClosed, arrived, ctxDone, lastErr>>

\* a mutant of TaskSend: the channel has room for one result less
TaskSendSmallBuffer(i, r) ==
    /\ dpc # "idle"
    /\ i \in 1..Len(fs) /\ task[i] = "running"
    /\ r \in Outcomes(fs[i].kind, cctxDone)
    /\ Len(ch) < Len(fs) - 1
    /\ task' = [task EXCEPT ![i] = "done"]
    /\ ch' = Append(ch, r)
    /\ arrived' = Append(arrived, r)
    /\ UNCHANGED <<fetchers, dpc, fs, chClosed, ctxDone, cctxDone, lastErr, dret>>

\* a task's FetchLatest returns and the task sends its result
TaskSend(i, r) ==
    /\ dpc # "idle"
    /\ i \in 1..Len(fs) /\ task[i] = "running"
    /\ r \in Outcomes(fs[i].kind, cctxDone)
    /\ Len(ch) < Len(fs)
    /\ task' = [task EXCEPT ![i] = "done"]
    /\ ch' = Append(ch, r)
    /\ arrived' = Append(arrived, r)
    /\ UNCHANGED <<fetchers, dpc, fs, chClosed, ctxDone, cctxDone, lastErr, dret>>

\* the goroutine that waits for every task, then closes the channel
CloseChannel ==
    /\ dpc # "idle" /\ Len(fs) > 0
    /\ ~chClosed
    /\ \A i \in Launched : task[i] = "done"
    /\ chClosed' = TRUE
    /\ UNCHANGED <<fetchers, dpc, fs, task, ch, arrived, ctxDone, cctxDone,
                   lastErr, dret>>

\* the caller cancels ctx, which cancels the derived cctx
CancelParent ==
    /\ dpc # "done"
    /\ ~ctxDone
    /\ ctxDone' = TRUE
    /\ cctxDone' = (cctxDone \/ dpc = "loop")
    /\ UNCHANGED <<fetchers, dpc, fs, task, ch, chClosed, arrived, lastErr, dret>>

\* select: case <-ctx.Done()
SelectDone ==
    /\ dpc = "loop" /\ ctxDone
    /\ Return(IF lastErr # NoErr THEN Failure(lastErr) ELSE Failure(Canceled))
    /\ UNCHANGED <<fetchers, fs, task, ch, chClosed, arrived, ctxDone, lastErr>>

\* select: case r, ok := <-ch with a result in the buffer
SelectReceive ==
    /\ dpc = "loop" /\ ch # <<>>
    /\ LET r == Head(ch)
       IN IF r.err # NoErr
          THEN /\ lastErr' = r.err
               /\ UNCHANGED <<dpc, dret, cctxDone>>
          ELSE IF r.b = NilBlock \/ r.b.Hash = "" \/ r.b.Height = <<>>
          THEN /\ lastErr' = "invalid_block"
               /\ UNCHANGED <<dpc, dret, cctxDone>>
          ELSE /\ Return(Success(r.b))
               /\ UNCHANGED lastErr
    /\ ch' = Tail(ch)
    /\ UNCHANGED <<fetchers, fs, task, chClosed, arrived, ctxDone>>

\* select: case r, ok := <-ch on the closed, drained channel
SelectClosed ==
    /\ dpc = "loop" /\ ch = <<>> /\ chClosed
    /\ Return(Failure(IF lastErr = NoErr THEN "all_sources_failed" ELSE lastErr))
    /\ lastErr' = IF lastErr = NoErr THEN "all_sources_failed" ELSE lastErr
    /\ UNCHANGED <<fetchers, fs, task, ch, chClosed, arrived, ctxDone>>

\* ------------------------------------------- Dispatcher.ReplaceAll, snapshot
\* FetchAny and ReplaceAll step by step: d.mu is taken and released, and
\* append copies the elements of d.fetchers one after the other
VARIABLES
    dmu,      \* d.mu: "free", "r" (read-locked by snapshot), "w" (locked)
    snapAt,   \* the number of lists d.fetchers had held when snapshot locked
    replPc,   \* ReplaceAll: "idle", "locked" or "stored"
    replList, \* the list of the ReplaceAll in progress
    held      \* the lists d.fetchers has held, oldest first

evars == <<dmu, snapAt, replPc, replList, held>>

\* the fetchers main adds and the lists the UI saves
ReplaceFetchers ==
    {[kind |-> "trongrid", Enabled |-> TRUE], [kind |-> "ankr-rpc", Enabled |-> FALSE]}

ReplaceLists ==
    {<<>>,
     <<[kind |-> "ankr-rpc", Enabled |-> TRUE]>>,
     <<[kind |-> "trongrid", Enabled |-> FALSE], [kind |-> "ankr-rpc", Enabled |-> TRUE]>>}

EStart ==
    /\ fetchers \in SeqsUpTo(ReplaceFetchers, MaxFetchers)
    /\ dpc = "idle"
    /\ fs = <<>> /\ task = <<>>
    /\ ch = <<>> /\ chClosed = FALSE /\ arrived = <<>>
    /\ ctxDone = FALSE /\ cctxDone = FALSE
    /\ lastErr = NoErr
    /\ dret = NoReturn
    /\ dmu = "free" /\ snapAt = 0
    /\ replPc = "idle" /\ replList = <<>>
    /\ held = <<fetchers>>

\* snapshot: d.mu.RLock and make
snapshotRLock ==
    /\ dpc = "idle" /\ dmu = "free"
    /\ dmu' = "r"
    /\ dpc' = "snapshot"
    /\ snapAt' = Len(held)
    /\ fs' = <<>>
    /\ UNCHANGED <<fetchers, task, ch, chClosed, arrived, ctxDone, cctxDone,
                   lastErr, dret, replPc, replList, held>>

\* snapshot: append copies the next element of d.fetchers
snapshotCopy ==
    /\ dpc = "snapshot" /\ dmu = "r"
    /\ Len(fs) < Len(fetchers)
    /\ fs' = Append(fs, fetchers[Len(fs) + 1])
    /\ UNCHANGED <<fetchers, dpc, task, ch, chClosed, arrived, ctxDone, cctxDone,
                   lastErr, dret, dmu, snapAt, replPc, replList, held>>

\* snapshot returns (the deferred RUnlock) and FetchAny goes on to its select
\* loop: no_sources for an empty snapshot, otherwise one goroutine per
\* enabled fetcher of the snapshot
FetchAnyLaunch ==
    /\ dpc = "snapshot" /\ dmu = "r"
    /\ Len(fs) >= Len(fetchers)
    /\ dmu' = "free"
    /\ IF Len(fs) = 0
       THEN /\ dpc' = "done"
            /\ dret' = Failure("no_sources")
            /\ task' = <<>>
            /\ UNCHANGED cctxDone
       ELSE /\ dpc' = "loop"
            /\ task' = [i \in 1..Len(fs) |->
                           IF fs[i].Enabled THEN "running" ELSE "skipped"]
            /\ cctxDone' = ctxDone
            /\ UNCHANGED dret
    /\ UNCHANGED <<fetchers, fs, ch, chClosed, arrived, ctxDone, lastErr,
                   snapAt, replPc, replList, held>>

\* a mutant of ReplaceAll: the list is replaced without d.mu
ReplaceAllUnlocked(list) ==
    /\ replPc = "idle"
    /\ Len(held) <= MaxReplaces
    /\ replPc' = "locked"
    /\ replList' = list
    /\ UNCHANGED <<dvars, dmu, snapAt, held>>

\* ReplaceAll: d.mu.Lock
ReplaceAll(list) ==
    /\ replPc = "idle" /\ dmu = "free"
    /\ Len(held) <= MaxReplaces
    /\ dmu' = "w"
    /\ replPc' = "locked"
    /\ replList' = list
    /\ UNCHANGED <<dvars, snapAt, held>>

\* ReplaceAll: d.fetchers = list
ReplaceAllStore ==
    /\ replPc = "locked"
    /\ fetchers' = replList
    /\ held' = Append(held, replList)
    /\ replPc' = "stored"
    /\ UNCHANGED <<dpc, fs, task, ch, chClosed, arrived, ctxDone, cctxDone,
                   lastErr, dret, dmu, snapAt, replList>>

\* ReplaceAll: the deferred d.mu.Unlock
ReplaceAllUnlock ==
    /\ replPc = "stored"
    /\ dmu' = IF dmu = "w" THEN "free" ELSE dmu
    /\ replPc' = "idle"
    /\ UNCHANGED <<dvars, snapAt, replList, held>>

\* ------------------------------------------------------------ classifiers
\* the characters hashes are made of: decimal digits on both sides of the
\* 4 / 5 border and of both parities, hex letters, a letter that is not hex,
\* an upper-case letter, white space
HashChars == {"3", "4", "5", "8", "a", "f", "g", "A", " "}
Hashes == SeqsUpTo(HashChars, MaxHashLen)

\* strings.TrimSpace
RECURSIVE TrimLeft(_)
TrimLeft(s) == IF s # <<>> /\ Head(s) = " " THEN TrimLeft(Tail(s)) ELSE s

RECURSIVE TrimRight(_)
TrimRight(s) ==
    IF s # <<>> /\ s[Len(s)] = " " THEN TrimRight(SubSeq(s, 1, Len(s) - 1)) ELSE s

TrimSpace(s) == TrimRight(TrimLeft(s))

\* strings.ToLower
ToLowerChar(c) ==
    CASE c = "A" -> "a" [] c = "B" -> "b" [] c = "C" -> "c" [] c = "D" -> "d"
      [] c = "E" -> "e" [] c = "F" -> "f" [] c = "G" -> "g" [] OTHER -> c

ToLower(s) == [i \in 1..Len(s) |-> ToLowerChar(s[i])]

\* c >= '0' && c <= '9', also unicode.IsDigit on these characters
IsDigit(c) == HexValue(c) \in 0..9

\* unicode.IsLetter on these characters
IsLetter(c) == c \in {"a", "b", "c", "d", "e", "f", "g",
                      "A", "B", "C", "D", "E", "F", "G"}

\* the values cfg.JudgeRule can hold: isValidJudgeRule accepts them, and the
\* empty string is the zero value
StoredRules == {"", "LUCKY", "BIGSMALL", "bigsmall", " ODDEVEN"}

\* strings.ToUpper(strings.TrimSpace(rule)) and the default of judgeState
NormalRule(rule) ==
    CASE rule \in {"BIGSMALL", "bigsmall"} -> "BIGSMALL"
      [] rule = " ODDEVEN" -> "ODDEVEN"
      [] rule = "" -> "LUCKY"
      [] OTHER -> rule

\* lastDigit of main.go: the last decimal digit of the trimmed hash
RECURSIVE LastDigitLoop(_, _)
LastDigitLoop(h, i) ==
    IF i < 1 THEN [c |-> "", ok |-> FALSE]
    ELSE IF IsDigit(h[i]) THEN [c |-> h[i], ok |-> TRUE]
    ELSE LastDigitLoop(h, i - 1)

lastDigit(hash) == LastDigitLoop(TrimSpace(hash), Len(TrimSpace(hash)))

\* a mutant of charType: every letter counts as a hex letter
charTypeAnyLetter(c) ==
    IF IsDigit(c) THEN [t |-> "D", ok |-> TRUE]
    ELSE IF IsLetter(c) THEN [t |-> "A", ok |-> TRUE]
    ELSE [t |-> "", ok |-> FALSE]

charType(c) ==
    IF IsDigit(c) THEN [t |-> "D", ok |-> TRUE]
    ELSE IF c \in {"a", "b", "c", "d", "e", "f"} THEN [t |-> "A", ok |-> TRUE]
    ELSE [t |-> "", ok |-> FALSE]

NoState == [state |-> "", ok |-> FALSE]
Judged(state) == [state |-> state, ok |-> TRUE]

\* judgeState of main.go under cfg.JudgeRule = rule
judgeState(rule, hash) ==
    LET h == ToLower(TrimSpace(hash))
        d == lastDigit(hash)
    IN CASE NormalRule(rule) = "BIGSMALL" ->
              IF ~d.ok THEN NoState
              ELSE IF HexValue(d.c) <= 4 THEN Judged("ON") ELSE Judged("OFF")
         [] NormalRule(rule) = "ODDEVEN" ->
              IF ~d.ok THEN NoState
              ELSE IF HexValue(d.c) % 2 = 0 THEN Judged("ON") ELSE Judged("OFF")
         [] OTHER ->
              IF Len(h) < 2 THEN NoState
              ELSE IF ~charType(h[Len(h) - 1]).ok \/ ~charType(h[Len(h)]).ok
              THEN NoState
              ELSE IF charType(h[Len(h) - 1]).t # charType(h[Len(h)]).t
              THEN Judged("ON") ELSE Judged("OFF")

\* package judge, Judge: lastN, lastDigit, judgeLucky, judgeBig, judgeOdd
lastN(s, n) == IF Len(TrimSpace(s)) < n THEN TrimSpace(s) ELSE LastN(TrimSpace(s), n)

RECURSIVE JudgeLastDigitLoop(_, _)
JudgeLastDigitLoop(s, i) ==
    IF i < 1 THEN [d |-> 0, ok |-> FALSE]
    ELSE IF IsDigit(s[i]) THEN [d |-> HexValue(s[i]), ok |-> TRUE]
    ELSE JudgeLastDigitLoop(s, i - 1)

JudgeLastDigit(s) == JudgeLastDigitLoop(s, Len(s))

JudgeLucky(hash) ==
    LET h == lastN(hash, 2)
    IN IF Len(h) < 2 THEN OFF
       ELSE IF (IsLetter(h[1]) /\ IsDigit(h[2])) \/ (IsDigit(h[1]) /\ IsLetter(h[2]))
       THEN ON ELSE OFF

JudgeBig(hash) ==
    IF ~JudgeLastDigit(hash).ok THEN OFF
    ELSE IF JudgeLastDigit(hash).d <= 4 THEN ON ELSE OFF

JudgeOdd(hash) ==
    IF ~JudgeLastDigit(hash).ok THEN OFF
    ELSE IF JudgeLastDigit(hash).d % 2 = 0 THEN ON ELSE OFF

\* Judge.Decide with j.current = current
Decide(current, hash) ==
    CASE current = "big" -> JudgeBig(hash)
      [] current = "odd" -> JudgeOdd(hash)
      [] OTHER -> JudgeLucky(hash)

\* package judge, Engine: judgeLucky, judgeSize, judgeOdd
EngineLucky(hash) ==
    IF Len(hash) < 2 THEN FALSE
    ELSE IsDigit(hash[Len(hash) - 1]) # IsDigit(hash[Len(hash)])

EngineSize(hash) ==
    JudgeLastDigit(hash).ok /\ JudgeLastDigit(hash).d <= 4

EngineOdd(hash) ==
    JudgeLastDigit(hash).ok /\ JudgeLastDigit(hash).d % 2 = 0

\* Engine.Judge with e.current = current
EngineJudge(current, hash) ==
    CASE current = "lucky" -> EngineLucky(hash)
      [] current = "size" -> EngineSize(hash)
      [] current = "odd" -> EngineOdd(hash)
      [] OTHER -> FALSE

\* the RuleType of Judge and of Engine for each rule
JudgeRuleType == [LUCKY |-> "lucky", BIGSMALL |-> "big", ODDEVEN |-> "odd"]
EngineRuleType == [LUCKY |-> "lucky", BIGSMALL |-> "size", ODDEVEN |-> "odd"]

VARIABLES
    jrule,    \* cfg.JudgeRule
    jhash,    \* the hash to classify
    jmain,    \* <<what judgeState returned for it>>, <<>> before the call
    jdecide,  \* <<what Judge.Decide returned for it>>
    jengine   \* <<what Engine.Judge returned for it>>

jvars == <<jrule, jhash, jmain, jdecide, jengine>>

JStart ==
    /\ jrule \in StoredRules
    /\ jhash \in Hashes
    /\ jmain = <<>> /\ jdecide = <<>> /\ jengine = <<>>

CallJudgeState ==
    /\ jmain' = <<judgeState(jrule, jhash)>>
    /\ UNCHANGED <<jrule, jhash, jdecide, jengine>>

CallDecide ==
    /\ jdecide' = <<Decide(JudgeRuleType[NormalRule(jrule)], jhash)>>
    /\ UNCHANGED <<jrule, jhash, jmain, jengine>>

CallEngineJudge ==
    /\ jengine' = <<EngineJudge(EngineRuleType[NormalRule(jrule)], jhash)>>
    /\ UNCHANGED <<jrule, jhash, jmain, jdecide>>

\* --------------------------------------------------- main.go: processBlock
ringSize == 50

\* the Rules of the configuration: On and Off thresholds, the HIT rule
ThresholdRules == {[Enabled |-> TRUE, Threshold |-> 1],
                   [Enabled |-> TRUE, Threshold |-> 2],
                   [Enabled |-> FALSE, Threshold |-> 1],
                   [Enabled |-> TRUE, Threshold |-> 0]}

HitRules == {[Enabled |-> FALSE, Expect |-> "ON", Offset |-> 1],
             [Enabled |-> TRUE, Expect |-> "ON", Offset |-> 1],
             [Enabled |-> TRUE, Expect |-> "OFF", Offset |-> 2],
             [Enabled |-> TRUE, Expect |-> "", Offset |-> 0]}

\* the Rules a run starts with: every threshold rule and every HIT rule is
\* in one of them
MainRules ==
    {r \in [On : ThresholdRules, Off : ThresholdRules, Hit : HitRules] :
        \/ r.On.Threshold = 1 /\ r.On.Enabled /\ r.Off = r.On
           /\ r.Hit.Enabled /\ r.Hit.Expect \in {"ON", "OFF"}
        \/ r.On.Threshold = 2 /\ r.Off.Threshold = 1 /\ r.Off.Enabled
           /\ r.Hit.Expect = "OFF"
        \/ r.On.Threshold = 1 /\ r.On.Enabled /\ ~r.Off.Enabled
           /\ r.Hit.Expect = ""
        \/ r.On.Threshold = 0 /\ r.Off.Threshold = 1 /\ r.Off.Enabled
           /\ ~r.Hit.Enabled}

MainConfig == [JudgeRule : {"LUCKY", "BIGSMALL"}, Rules : MainRules]

\* hashes of incoming blocks: ON under LUCKY and BIGSMALL; not hex under
\* LUCKY and OFF under BIGSMALL
MainHashes == {<<"a", "3">>, <<"g", "8">>}

\* ringBuffer.reset
ringReset == [buf |-> [i \in 0..(ringSize - 1) |-> <<>>], idx |-> 0,
              full |-> FALSE, index |-> {}]

\* ringBuffer.has
ringHas(r, key) == key \in r.index

\* a mutant of ringBuffer.add: the overwritten key stays in the index
ringAddKeepIndex(r, key) ==
    [buf |-> [r.buf EXCEPT ![r.idx] = key],
     idx |-> IF r.idx + 1 >= ringSize THEN 0 ELSE r.idx + 1,
     full |-> r.full \/ r.idx + 1 >= ringSize,
     index |-> r.index \cup {key}]

\* ringBuffer.add
ringAdd(r, key) ==
    LET old == r.buf[r.idx]
        index == (IF old # <<>> THEN r.index \ {old} ELSE r.index) \cup {key}
    IN [buf |-> [r.buf EXCEPT ![r.idx] = key],
        idx |-> IF r.idx + 1 >= ringSize THEN 0 ELSE r.idx + 1,
        full |-> r.full \/ r.idx + 1 >= ringSize,
        index |-> index]

\* resetRuntime, for the fields processBlock works on
RuntimeState ==
    [OnCounter |-> 0, OffCounter |-> 0, WaitingReverse |-> TRUE,
     LastTriggered |-> "", BaseHeight |-> 0,
     HitWaiting |-> FALSE, HitBase |-> 0, HitOffset |-> 0, HitExpect |-> "",
     Ring |-> ringReset,
     LastHeight |-> 0, LastHash |-> <<>>, LastTime |-> 0]

MainSignal(type, height, base, state) ==
    [Type |-> type, Height |-> height, BaseHeight |-> base, State |-> state]

reverseOf(s) == IF s = "ON" THEN "OFF" ELSE "ON"

\* armHitLocked
armHitLocked(r, triggerHeight, rules) ==
    IF ~rules.Hit.Enabled THEN r
    ELSE [r EXCEPT !.HitWaiting = TRUE,
                   !.HitBase = triggerHeight,
                   !.HitOffset = IF rules.Hit.Offset < 1 THEN 1 ELSE rules.Hit.Offset,
                   !.HitExpect = IF rules.Hit.Expect \in {"ON", "OFF"}
                                 THEN rules.Hit.Expect ELSE "ON"]

\* a mutant of the HIT check: the signal carries the height as its base
HitCheckOwnBase(r, height, state) ==
    IF r.HitWaiting /\ height = r.HitBase + r.HitOffset
    THEN [rt |-> [r EXCEPT !.HitWaiting = FALSE],
          out |-> IF state = r.HitExpect
                  THEN <<MainSignal("HIT", height, height, state)>> ELSE <<>>]
    ELSE [rt |-> r, out |-> <<>>]

\* runStateMachine, the HIT check
HitCheck(r, height, state) ==
    IF r.HitWaiting /\ height = r.HitBase + r.HitOffset
    THEN [rt |-> [r EXCEPT !.HitWaiting = FALSE],
          out |-> IF state = r.HitExpect
                  THEN <<MainSignal("HIT", height, r.HitBase, state)>> ELSE <<>>]
    ELSE [rt |-> r, out |-> <<>>]

\* runStateMachine, the counting of one state and its trigger
Counting(r, height, state, rules) ==
    LET rule == IF state = "ON" THEN rules.On ELSE rules.Off
        n == IF rule.Enabled
             THEN (IF state = "ON" THEN r.OnCounter ELSE r.OffCounter) + 1 ELSE 0
        counted == [r EXCEPT !.OnCounter = IF state = "ON" THEN n ELSE 0,
                             !.OffCounter = IF state = "OFF" THEN n ELSE 0]
    IN IF rule.Enabled /\ rule.Threshold > 0 /\ n >= rule.Threshold
       THEN [rt |-> armHitLocked([counted EXCEPT !.OnCounter = 0, !.OffCounter = 0,
                                                 !.WaitingReverse = TRUE,
                                                 !.LastTriggered = state,
                                                 !.BaseHeight = height],
                                 height, rules),
             out |-> <<MainSignal(state, height, height, state)>>]
       ELSE [rt |-> counted, out |-> <<>>]

\* runStateMachine
runStateMachine(r, height, state, rules) ==
    LET hit == HitCheck(r, height, state)
        h == hit.rt
        met == h.WaitingReverse /\ h.LastTriggered # ""
               /\ state = reverseOf(h.LastTriggered)
        open == [h EXCEPT !.WaitingReverse = FALSE,
                          !.OnCounter = IF met THEN 0 ELSE @,
                          !.OffCounter = IF met THEN 0 ELSE @]
        cnt == Counting(open, height, state, rules)
    IN IF h.WaitingReverse /\ h.LastTriggered # "" /\ ~met
       THEN [rt |-> h, out |-> hit.out]
       ELSE [rt |-> cnt.rt, out |-> hit.out \o cnt.out]

\* fmt.Sprintf("%d:%s", height, hash)
RingKey(height, hash) == itoa64(height) \o <<":">> \o hash

\* a mutant of processBlock: the hash is judged before the key is recorded
processBlockJudgeFirst(r, c, height, hash) ==
    LET key == RingKey(height, hash)
        st == judgeState(c.JudgeRule, hash)
        added == [r EXCEPT !.Ring = ringAdd(r.Ring, key)]
        run == runStateMachine(added, height, st.state, c.Rules)
    IN IF ringHas(r.Ring, key) \/ ~st.ok
       THEN [rt |-> r, sent |-> <<>>, added |-> FALSE, ran |-> FALSE]
       ELSE [rt |-> run.rt, sent |-> run.out, added |-> TRUE, ran |-> TRUE]

\* processBlock: dedup, judge, state machine, broadcast
processBlock(r, c, height, hash) ==
    LET key == RingKey(height, hash)
        st == judgeState(c.JudgeRule, hash)
        added == [r EXCEPT !.Ring = ringAdd(r.Ring, key)]
        run == runStateMachine(added, height, st.state, c.Rules)
    IN IF ringHas(r.Ring, key)
       THEN [rt |-> r, sent |-> <<>>, added |-> FALSE, ran |-> FALSE]
       ELSE IF ~st.ok
       THEN [rt |-> added, sent |-> <<>>, added |-> TRUE, ran |-> FALSE]
       ELSE [rt |-> run.rt, sent |-> run.out, added |-> TRUE, ran |-> TRUE]

VARIABLES
    pcfg,   \* cfg: JudgeRule and Rules
    mainRt, \* the RuntimeState rt
    sent,   \* the signals the last processBlock broadcast
    parg,   \* the (height, hash) of the last processBlock
    prt,    \* rt as the last processBlock found it, or the last handler
    pobs,   \* what an observer of the program has seen, see NoObs
    core    \* the app.Core of the httpapi handlers

pvars == <<pcfg, mainRt, sent, parg, prt, pobs, core>>

NoBlockArg == [height |-> 0, hash |-> <<>>]

\* the observer after main: the last call with its error and HTTP status,
\* the Status records the last call pushed, whether it reached
\* runStateMachine, the keys recorded and the states judged since the boot,
\* the trigger that armed the pending HIT (height, rt.HitOffset) and whether
\* a later block passed its target
NoObs ==
    [call |-> "main", err |-> NoErr, status |-> 0, pushed |-> <<>>,
     ran |-> FALSE, recorded |-> <<>>, judged |-> <<>>, arm |-> <<>>,
     skipped |-> FALSE]

\* main after loadConfig and resetRuntime
PStart ==
    /\ pcfg \in MainConfig
    /\ mainRt = RuntimeState
    /\ sent = <<>>
    /\ parg = NoBlockArg
    /\ prt = RuntimeState
    /\ pobs = NoObs
    /\ core = Unused

\* the replies of the node to POST /wallet/getnowblock: a transport error, a
\* status other than 200, a body with blockID and block_header.raw_data
BlockReply(id, n) ==
    [err |-> NoErr, status |-> 200, BlockID |-> id, Number |-> n,
     Timestamp |-> 3000 * n]

FetchReplies ==
    {[err |-> "net", status |-> 0, BlockID |-> <<>>, Number |-> 0, Timestamp |-> 0],
     [err |-> NoErr, status |-> 500, BlockID |-> <<>>, Number |-> 0, Timestamp |-> 0]}
    \cup {BlockReply(id, n) : id \in MainHashes \cup {<<>>}, n \in 0..MainMaxHeight}

\* fetchNowBlock
fetchNowBlock(reply) ==
    LET failed(e) == [height |-> 0, hash |-> <<>>, blockTime |-> 0, err |-> e]
    IN IF reply.err # NoErr THEN failed(reply.err)
       ELSE IF reply.status # 200 THEN failed("http")
       ELSE IF reply.BlockID = <<>> \/ reply.Number = 0 THEN failed("bad block data")
       ELSE [height |-> reply.Number, hash |-> reply.BlockID,
             blockTime |-> reply.Timestamp, err |-> NoErr]

\* Status of the fields the listener sets
Status(r) ==
    [LastHeight |-> r.LastHeight, LastHash |-> r.LastHash, LastTime |-> r.LastTime]

IsTrigger(s) == s.Type \in {"ON", "OFF"}
HasTrigger(out) == \E i \in 1..Len(out) : IsTrigger(out[i])
HasHit(out) == \E i \in 1..Len(out) : out[i].Type = "HIT"

\* a mutant of tick: the status fields are set before the error is tested
tickStatusFirst(r, c, reply) ==
    LET f == fetchNowBlock(reply)
        seen == [r EXCEPT !.LastHeight = f.height, !.LastHash = f.hash,
                          !.LastTime = f.blockTime]
        res == processBlock(seen, c, f.height, f.hash)
    IN IF f.err # NoErr
       THEN [err |-> f.err, height |-> 0, hash |-> <<>>, seen |-> seen, rt |-> seen,
             pushed |-> <<>>, sent |-> <<>>, added |-> FALSE, ran |-> FALSE]
       ELSE [err |-> NoErr, height |-> f.height, hash |-> f.hash, seen |-> seen,
             rt |-> res.rt, pushed |-> <<Status(seen)>>, sent |-> res.sent,
             added |-> res.added, ran |-> res.ran]

\* listenerLoop, the body of case <-ticker.C as a function of rt, cfg and the
\* reply of the node: fetchNowBlock; on an error POLL_ERROR and nothing
\* else; otherwise the status fields, pushSSE and processBlock
tick(r, c, reply) ==
    LET f == fetchNowBlock(reply)
        seen == [r EXCEPT !.LastHeight = f.height, !.LastHash = f.hash,
                          !.LastTime = f.blockTime]
        res == processBlock(seen, c, f.height, f.hash)
    IN IF f.err # NoErr
       THEN [err |-> f.err, height |-> 0, hash |-> <<>>, seen |-> r, rt |-> r,
             pushed |-> <<>>, sent |-> <<>>, added |-> FALSE, ran |-> FALSE]
       ELSE [err |-> NoErr, height |-> f.height, hash |-> f.hash, seen |-> seen,
             rt |-> res.rt, pushed |-> <<Status(seen)>>, sent |-> res.sent,
             added |-> res.added, ran |-> res.ran]

\* the observer's account of one tick
Observe(o, t, st) ==
    LET armed == HasTrigger(t.sent) /\ t.rt.HitWaiting
        passed == /\ t.ran /\ o.arm # <<>> /\ ~o.skipped
                  /\ t.height > o.arm[1].base + o.arm[1].offset
    IN [call |-> "listenerLoop", err |-> t.err, status |-> 0,
        pushed |-> t.pushed,
        ran |-> t.ran,
        recorded |-> IF t.added THEN Append(o.recorded, RingKey(t.height, t.hash))
                     ELSE o.recorded,
        judged |-> IF t.ran THEN Append(o.judged, st.state) ELSE o.judged,
        arm |-> IF armed
                THEN <<[base |-> t.height, offset |-> t.rt.HitOffset,
                        expect |-> t.rt.HitExpect]>>
                ELSE o.arm,
        skipped |-> IF armed THEN FALSE ELSE o.skipped \/ passed]

\* listenerLoop, one tick
listenerLoop(reply) ==
    LET t == tick(mainRt, pcfg, reply)
    IN /\ mainRt' = t.rt
       /\ sent' = t.sent
       /\ parg' = [height |-> t.height, hash |-> t.hash]
       /\ prt' = t.seen
       /\ pobs' = Observe(pobs, t, judgeState(pcfg.JudgeRule, t.hash))
       /\ UNCHANGED <<pcfg, core>>

\* the ticks of one run are capped
PBounded == mainRt.Ring.idx < MaxBlocks

\* --------------------------------------------------- main.go: apiSetJudge
\* strings.TrimSpace and strings.ToUpper on the strings of the requests
TrimString(s) ==
    CASE s = " lucky" -> "lucky" [] s = " big" -> "big" [] s = "yes " -> "yes"
      [] s = " off" -> "off" [] OTHER -> s

ToUpperString(s) ==
    CASE s = "lucky" -> "LUCKY" [] s = "bigsmall" -> "BIGSMALL"
      [] s = "big" -> "BIG" [] s = "off" -> "OFF" [] OTHER -> s

isValidJudgeRule(s) ==
    ToUpperString(TrimString(s)) \in {"LUCKY", "BIGSMALL", "ODDEVEN"}

\* the bodies of PUT /api/judge: not JSON, or rule, confirm and ackStop
JudgeRequests ==
    [json : {FALSE}, Rule : {""}, Confirm : {FALSE}, AckStop : {FALSE}]
    \cup [json : {TRUE}, Rule : {" lucky", "BIGSMALL", "big"},
          Confirm : BOOLEAN, AckStop : BOOLEAN]

\* disableAllMachinesAndResetRuntimeLocked
disableAllMachinesAndResetRuntimeLocked(c, r) ==
    [cfg |-> [c EXCEPT !.Rules.On.Enabled = FALSE, !.Rules.Off.Enabled = FALSE,
                       !.Rules.Hit.Enabled = FALSE],
     rt |-> [r EXCEPT !.OnCounter = 0, !.OffCounter = 0, !.WaitingReverse = TRUE,
                      !.LastTriggered = "", !.BaseHeight = 0,
                      !.HitWaiting = FALSE, !.HitBase = 0, !.HitOffset = 0,
                      !.HitExpect = ""]]

\* a mutant of setJudge: the rule is stored before the confirmation is tested
setJudgeStoreFirst(c, r, req) ==
    LET rule == ToUpperString(TrimString(req.Rule))
        from == IF c.JudgeRule = "" THEN "LUCKY" ELSE c.JudgeRule
        reset == disableAllMachinesAndResetRuntimeLocked(
                     [c EXCEPT !.JudgeRule = rule], r)
    IN IF ~req.json THEN [cfg |-> c, rt |-> r, status |-> 400, err |-> "bad json"]
       ELSE IF ~isValidJudgeRule(rule)
       THEN [cfg |-> c, rt |-> r, status |-> 400, err |-> "invalid rule"]
       ELSE IF ~req.Confirm \/ ~req.AckStop
       THEN [cfg |-> [c EXCEPT !.JudgeRule = rule], rt |-> r, status |-> 400,
             err |-> "need confirm"]
       ELSE IF from = rule
       THEN [cfg |-> c, rt |-> r, status |-> 200, err |-> NoErr]
       ELSE [cfg |-> reset.cfg, rt |-> reset.rt, status |-> 200, err |-> NoErr]

\* apiSetJudge as a function of cfg, rt and the request
setJudge(c, r, req) ==
    LET rule == ToUpperString(TrimString(req.Rule))
        from == IF c.JudgeRule = "" THEN "LUCKY" ELSE c.JudgeRule
        reset == disableAllMachinesAndResetRuntimeLocked(
                     [c EXCEPT !.JudgeRule = rule], r)
    IN IF ~req.json THEN [cfg |-> c, rt |-> r, status |-> 400, err |-> "bad json"]
       ELSE IF ~isValidJudgeRule(rule)
       THEN [cfg |-> c, rt |-> r, status |-> 400, err |-> "invalid rule"]
       ELSE IF ~req.Confirm \/ ~req.AckStop
       THEN [cfg |-> c, rt |-> r, status |-> 400, err |-> "need confirm"]
       ELSE IF from = rule
       THEN [cfg |-> c, rt |-> r, status |-> 200, err |-> NoErr]
       ELSE [cfg |-> reset.cfg, rt |-> reset.rt, status |-> 200, err |-> NoErr]

\* apiSetJudge
apiSetJudge(req) ==
    LET res == setJudge(pcfg, mainRt, req)
    IN /\ pcfg' = res.cfg
       /\ mainRt' = res.rt
       /\ sent' = <<>>
       /\ parg' = NoBlockArg
       /\ prt' = mainRt
       /\ pobs' = [pobs EXCEPT !.call = "apiSetJudge", !.err = res.err,
                               !.status = res.status, !.pushed = <<>>,
                               !.ran = FALSE,
                               !.arm = IF res.rt.HitWaiting THEN @ ELSE <<>>,
                               !.skipped = res.rt.HitWaiting /\ @]
       /\ UNCHANGED core

\* --------------------------- main.go: processBlock beside apiSetJudge
\* processBlock of the listener goroutine and apiSetJudge of a handler
\* goroutine, one action per critical section of rtMu or cfgMu
VARIABLES
    blkPc,    \* processBlock: "idle", "judge", "rules" or "run"
    blkArg,   \* its height and hash
    blkState, \* the state judgeState returned
    blkBy,    \* the cfg.JudgeRule judgeState read
    blkRules, \* the cfg.Rules processBlock read
    setPc,    \* apiSetJudge: "idle", "disable" or "reset"
    accBy,    \* the rules of the blocks runStateMachine has seen since rt was reset
    raceObs   \* the last runStateMachine call: rule of its block, accBy and rt
              \* before it, its arguments and its signals

avars == <<blkPc, blkArg, blkState, blkBy, blkRules, setPc, accBy, raceObs>>

NoRun ==
    [by |-> "", acc |-> {}, pre |-> RuntimeState, height |-> 0, state |-> "",
     rules |-> <<>>, out |-> <<>>]

AStart ==
    /\ blkPc = "idle" /\ blkArg = NoBlockArg /\ blkState = "" /\ blkBy = ""
    /\ blkRules = <<>>
    /\ setPc = "idle"
    /\ accBy = {}
    /\ raceObs = NoRun

\* processBlock, the dedup under rtMu
processBlockDedup(height, hash) ==
    LET key == RingKey(height, hash)
    IN /\ blkPc = "idle"
       /\ IF ringHas(mainRt.Ring, key)
          THEN UNCHANGED <<mainRt, blkPc, blkArg>>
          ELSE /\ mainRt' = [mainRt EXCEPT !.Ring = ringAdd(mainRt.Ring, key)]
               /\ blkPc' = "judge"
               /\ blkArg' = [height |-> height, hash |-> hash]
       /\ UNCHANGED <<pcfg, sent, parg, prt, pobs, core, blkState, blkBy, blkRules,
                      setPc, accBy, raceObs>>

\* processBlock, judgeState: cfg.JudgeRule is read under cfgMu.RLock
processBlockJudge ==
    LET st == judgeState(pcfg.JudgeRule, blkArg.hash)
    IN /\ blkPc = "judge"
       /\ IF st.ok
          THEN /\ blkPc' = "rules"
               /\ blkState' = st.state
               /\ blkBy' = pcfg.JudgeRule
          ELSE /\ blkPc' = "idle"
               /\ UNCHANGED <<blkState, blkBy>>
       /\ UNCHANGED <<pvars, blkArg, blkRules, setPc, accBy, raceObs>>

\* processBlock, rules := cfg.Rules under cfgMu.RLock
processBlockRules ==
    /\ blkPc = "rules"
    /\ blkRules' = pcfg.Rules
    /\ blkPc' = "run"
    /\ UNCHANGED <<pvars, blkArg, blkState, blkBy, setPc, accBy, raceObs>>

\* processBlock, runStateMachine under rtMu and the broadcast of its signals
processBlockRun ==
    LET run == runStateMachine(mainRt, blkArg.height, blkState, blkRules)
    IN /\ blkPc = "run"
       /\ mainRt' = run.rt
       /\ sent' = run.out
       /\ raceObs' = [by |-> blkBy, acc |-> accBy, pre |-> mainRt,
                      height |-> blkArg.height, state |-> blkState,
                      rules |-> blkRules, out |-> run.out]
       /\ accBy' = accBy \cup {blkBy}
       /\ blkPc' = "idle"
       /\ UNCHANGED <<pcfg, parg, prt, pobs, core, blkArg, blkState, blkBy, blkRules,
                      setPc>>

\* apiSetJudge up to cfgMu.Unlock: the request is tested and the rule stored
apiSetJudgeStore(req) ==
    LET res == setJudge(pcfg, mainRt, req)
    IN /\ setPc = "idle"
       /\ IF res.cfg.JudgeRule # pcfg.JudgeRule
          THEN /\ pcfg' = [pcfg EXCEPT !.JudgeRule = res.cfg.JudgeRule]
               /\ setPc' = "disable"
          ELSE UNCHANGED <<pcfg, setPc>>
       /\ UNCHANGED <<mainRt, sent, parg, prt, pobs, core, blkPc, blkArg, blkState,
                      blkBy, blkRules, accBy, raceObs>>

\* disableAllMachinesAndResetRuntimeLocked, the rules under cfgMu
apiSetJudgeDisable ==
    /\ setPc = "disable"
    /\ pcfg' = disableAllMachinesAndResetRuntimeLocked(pcfg, mainRt).cfg
    /\ setPc' = "reset"
    /\ UNCHANGED <<mainRt, sent, parg, prt, pobs, core, blkPc, blkArg, blkState,
                   blkBy, blkRules, accBy, raceObs>>

\* disableAllMachinesAndResetRuntimeLocked, the runtime under rtMu
apiSetJudgeReset ==
    /\ setPc = "reset"
    /\ mainRt' = disableAllMachinesAndResetRuntimeLocked(pcfg, mainRt).rt
    /\ accBy' = {}
    /\ setPc' = "idle"
    /\ UNCHANGED <<pcfg, sent, parg, prt, pobs, core, blkPc, blkArg, blkState,
                   blkBy, blkRules, raceObs>>

\* --------------------------------------------------- main.go: apiSetRules
\* clamp
clamp(v, lo, hi) ==
    LET m == IF hi < v THEN hi ELSE v
    IN IF lo > m THEN lo ELSE m

\* the bodies of PUT /api/rules: not JSON, or a Rules object as the client
\* sent it
RulesRequests ==
    {[json |-> FALSE,
      Rules |-> [On |-> [Enabled |-> FALSE, Threshold |-> 0],
                 Off |-> [Enabled |-> FALSE, Threshold |-> 0],
                 Hit |-> [Enabled |-> FALSE, Expect |-> "", Offset |-> 0]]],
     [json |-> TRUE,
      Rules |-> [On |-> [Enabled |-> TRUE, Threshold |-> 2],
                 Off |-> [Enabled |-> TRUE, Threshold |-> 1],
                 Hit |-> [Enabled |-> TRUE, Expect |-> "ON", Offset |-> 1]]],
     [json |-> TRUE,
      Rules |-> [On |-> [Enabled |-> TRUE, Threshold |-> 25],
                 Off |-> [Enabled |-> TRUE, Threshold |-> -1],
                 Hit |-> [Enabled |-> TRUE, Expect |-> " off", Offset |-> 0]]],
     [json |-> TRUE,
      Rules |-> [On |-> [Enabled |-> FALSE, Threshold |-> 1],
                 Off |-> [Enabled |-> TRUE, Threshold |-> 1],
                 Hit |-> [Enabled |-> FALSE, Expect |-> "big", Offset |-> 30]]]}

\* apiSetRules, the sanitizing of the decoded Rules
sanitize(in) ==
    LET expect == ToUpperString(TrimString(in.Hit.Expect))
    IN [On |-> [in.On EXCEPT !.Threshold = clamp(@, 0, 20)],
        Off |-> [in.Off EXCEPT !.Threshold = clamp(@, 0, 20)],
        Hit |-> [in.Hit EXCEPT !.Offset = clamp(@, 1, 20),
                               !.Expect = IF expect \in {"ON", "OFF"}
                                          THEN expect ELSE "ON"]]

\* apiSetRules as a function of cfg, rt and the request: rt is not touched
setRules(c, r, req) ==
    IF ~req.json THEN [cfg |-> c, rt |-> r, status |-> 400, err |-> "bad json"]
    ELSE [cfg |-> [c EXCEPT !.Rules = sanitize(req.Rules)], rt |-> r,
          status |-> 200, err |-> NoErr]

\* apiSetRules
apiSetRules(req) ==
    LET res == setRules(pcfg, mainRt, req)
    IN /\ pcfg' = res.cfg
       /\ mainRt' = res.rt
       /\ sent' = <<>>
       /\ parg' = NoBlockArg
       /\ prt' = mainRt
       /\ pobs' = [pobs EXCEPT !.call = "apiSetRules", !.err = res.err,
                               !.status = res.status, !.pushed = <<>>,
                               !.ran = FALSE]
       /\ UNCHANGED core

\* ------------------------------------------- httpapi: apiJudgeSwitchHandler
\* app.Core as POST /api/judge/switch sees it: the active rule, whether the
\* state machines run, their counters and the dedup cache
CoreRules == {"lucky", "big", "odd"}

NewCore == [JudgeRule |-> "lucky", Running |-> TRUE, Count |-> 0, Dedup |-> {}]

\* Core.SwitchJudgeRule: stops the machines, clears the counters, the
\* runtime and the dedup cache; a rule that is none of lucky, big, odd is an
\* error
SwitchJudgeRule(c, rule) ==
    IF rule \notin CoreRules THEN [core |-> c, err |-> "invalid rule"]
    ELSE [core |-> [JudgeRule |-> rule, Running |-> FALSE, Count |-> 0,
                    Dedup |-> {}],
          err |-> NoErr]

\* the form of a request to /api/judge/switch
SwitchForms ==
    [method : {"POST", "GET"}, rule : {"", " big", "lucky", "size"},
     confirm : {"yes ", "", "true"}]

\* apiJudgeSwitchHandler as a function of the Core and the form
switchJudge(c, form) ==
    LET rule == TrimString(form.rule)
        confirm == TrimString(form.confirm)
        sw == SwitchJudgeRule(c, rule)
    IN IF form.method # "POST"
       THEN [core |-> c, status |-> 405, err |-> "METHOD_NOT_ALLOWED"]
       ELSE IF rule = "" THEN [core |-> c, status |-> 400, err |-> "MISSING_RULE"]
       ELSE IF confirm # "yes"
       THEN [core |-> c, status |-> 400, err |-> "NEED_CONFIRM"]
       ELSE IF sw.err # NoErr THEN [core |-> sw.core, status |-> 400, err |-> sw.err]
       ELSE [core |-> sw.core, status |-> 200, err |-> NoErr]

\* apiJudgeSwitchHandler
apiJudgeSwitchHandler(form) ==
    LET res == switchJudge(core, form)
    IN /\ core' = res.core
       /\ pobs' = [pobs EXCEPT !.call = "apiJudgeSwitchHandler", !.err = res.err,
                               !.status = res.status, !.pushed = <<>>,
                               !.ran = FALSE]
       /\ sent' = <<>>
       /\ parg' = NoBlockArg
       /\ prt' = mainRt
       /\ UNCHANGED <<pcfg, mainRt>>

\* the Core's pipeline handles the block of one height while its machines
\* run: the dedup cache records the height, the counter counts it
CoreBlock(height) ==
    /\ core.Running
    /\ height \notin core.Dedup
    /\ core' = [core EXCEPT !.Dedup = @ \cup {height}, !.Count = 1]
    /\ UNCHANGED <<pcfg, mainRt, sent, parg, prt, pobs>>

\* ----------------------------------------------- main.go: broadcastSignal
Clients == 1..MaxClients

VARIABLES
    wsClients, \* the set of registered *wsConn
    wsMu,      \* TRUE while broadcastSignal holds wsMu
    conn,      \* per client: "none", "open" or "closed" (net.Conn)
    dead,      \* per client: wsConn.dead
    peer,      \* per client: the remote end reads ("ok"), has stopped reading
               \* with the send buffer full ("stalled"), or is gone ("gone")
    reader,    \* per client: the read goroutine: "none", "reading",
               \* "returned" (wsReadLoop returned), "done"
    bpc,       \* broadcastSignal: "idle", "loop", "write"
    todo,      \* the clients the range loop has not visited
    cur,       \* the client whose write is in progress
    sig,       \* the number of the signal being broadcast
    got,       \* per client: the signals its connection accepted
    failed     \* the clients a write of broadcastSignal failed on

hvars == <<wsClients, wsMu, conn, dead, peer, reader, bpc, todo, cur, sig, got,
           failed>>

HStart ==
    /\ wsClients = {} /\ wsMu = FALSE
    /\ conn = [c \in Clients |-> "none"]
    /\ dead = [c \in Clients |-> FALSE]
    /\ peer = [c \in Clients |-> "ok"]
    /\ reader = [c \in Clients |-> "none"]
    /\ bpc = "idle" /\ todo = {} /\ cur = 0 /\ sig = 0
    /\ got = [c \in Clients |-> {}]
    /\ failed = {}

\* wsConn.Close
Close(c) ==
    /\ dead' = [dead EXCEPT ![c] = TRUE]
    /\ conn' = IF dead[c] THEN conn ELSE [conn EXCEPT ![c] = "closed"]

\* wsHandler: the handshake, then the registration under wsMu and the start
\* of the read goroutine; a failed handshake closes the connection
wsHandler(c, handshake) ==
    /\ conn[c] = "none"
    /\ IF handshake
       THEN /\ ~wsMu
            /\ conn' = [conn EXCEPT ![c] = "open"]
            /\ wsClients' = wsClients \cup {c}
            /\ reader' = [reader EXCEPT ![c] = "reading"]
       ELSE /\ conn' = [conn EXCEPT ![c] = "closed"]
            /\ UNCHANGED <<wsClients, reader>>
    /\ UNCHANGED <<wsMu, dead, peer, bpc, todo, cur, sig, got, failed>>

\* the remote end stops reading, resumes, or goes away
PeerStalls(c) ==
    /\ conn[c] = "open" /\ peer[c] = "ok"
    /\ peer' = [peer EXCEPT ![c] = "stalled"]
    /\ UNCHANGED <<wsClients, wsMu, conn, dead, reader, bpc, todo, cur, sig, got,
                   failed>>

PeerResumes(c) ==
    /\ conn[c] = "open" /\ peer[c] = "stalled"
    /\ peer' = [peer EXCEPT ![c] = "ok"]
    /\ UNCHANGED <<wsClients, wsMu, conn, dead, reader, bpc, todo, cur, sig, got,
                   failed>>

PeerLeaves(c) ==
    /\ conn[c] = "open" /\ peer[c] # "gone"
    /\ peer' = [peer EXCEPT ![c] = "gone"]
    /\ UNCHANGED <<wsClients, wsMu, conn, dead, reader, bpc, todo, cur, sig, got,
                   failed>>

\* wsReadLoop returns once the connection is closed or the remote end is gone
ReaderReturns(c) ==
    /\ reader[c] = "reading"
    /\ conn[c] = "closed" \/ peer[c] = "gone"
    /\ reader' = [reader EXCEPT ![c] = "returned"]
    /\ UNCHANGED <<wsClients, wsMu, conn, dead, peer, bpc, todo, cur, sig, got,
                   failed>>

\* the deferred function of the read goroutine: delete under wsMu, Close
ReaderCleanup(c) ==
    /\ reader[c] = "returned"
    /\ ~wsMu
    /\ wsClients' = wsClients \ {c}
    /\ Close(c)
    /\ reader' = [reader EXCEPT ![c] = "done"]
    /\ UNCHANGED <<wsMu, peer, bpc, todo, cur, sig, got, failed>>

\* broadcastSignal: wsMu.Lock and the start of the range loop
BroadcastLock ==
    /\ bpc = "idle" /\ ~wsMu /\ sig < MaxSignals
    /\ wsMu' = TRUE
    /\ todo' = wsClients
    /\ sig' = sig + 1
    /\ bpc' = "loop"
    /\ UNCHANGED <<wsClients, conn, dead, peer, reader, cur, got, failed>>

\* the range loop visits a client, in the order of the map: a dead one is
\* skipped, the write to any other begins
BroadcastVisit(c) ==
    /\ bpc = "loop" /\ c \in todo
    /\ todo' = todo \ {c}
    /\ IF dead[c] THEN UNCHANGED <<bpc, cur>>
       ELSE bpc' = "write" /\ cur' = c
    /\ UNCHANGED <<wsClients, wsMu, conn, dead, peer, reader, sig, got, failed>>

\* wsWriteText returns: nil when the remote end took the frame, an error when
\* it is gone, and not at all while it is stalled; an error closes the client
WriteReturns ==
    /\ bpc = "write"
    /\ peer[cur] # "stalled"
    /\ IF peer[cur] = "ok"
       THEN /\ got' = [got EXCEPT ![cur] = @ \cup {sig}]
            /\ UNCHANGED <<conn, dead, failed>>
       ELSE /\ Close(cur)
            /\ failed' = failed \cup {cur}
            /\ UNCHANGED got
    /\ bpc' = "loop"
    /\ UNCHANGED <<wsClients, wsMu, peer, reader, todo, cur, sig>>

\* the end of the range loop and the deferred wsMu.Unlock
BroadcastUnlock ==
    /\ bpc = "loop" /\ todo = {}
    /\ bpc' = "idle"
    /\ wsMu' = FALSE
    /\ UNCHANGED <<wsClients, conn, dead, peer, reader, todo, cur, sig, got, failed>>

\* ------------------------------------------------ main.go: the listener
\* cfg.APIKeys, listenCan and rt.Listening with the goroutines that use them:
\* the handlers of PUT /api/apikey and the listenerLoop goroutines. Each
\* action is one critical section of cfgMu or of listenMu (rtMu is taken
\* inside listenMu only), or one blocking call of a loop.
Calls == 1..MaxCalls
Loops == 1..MaxLoops

VARIABLES
    apiKeys,      \* len(cfg.APIKeys)
    listenCan,    \* the loop whose cancel function listenCan holds, 0 for nil
    listening,    \* rt.Listening
    cancelledCtx, \* the loops whose context is cancelled
    loopPc,       \* per loop: "none", "select", "fetch", "process", "stop", "done"
    callPc,       \* per handler: "idle", "start", "lock", "stop", "done"
    callReq,      \* per handler: the number of keys of its request, -1 for bad JSON
    fetched,      \* the loops of the blocks fetched, in the order of the fetches
    processed     \* the loops of the processBlock calls, in the order of the calls

nvars == <<apiKeys, listenCan, listening, cancelledCtx, loopPc, callPc, callReq,
           fetched, processed>>

\* main: the keys of config.json, no listener (tryStartListener is called by
\* apiSetAPIKeys only), resetRuntime
NStart ==
    /\ apiKeys \in 0..1
    /\ listenCan = 0
    /\ listening = FALSE
    /\ cancelledCtx = {}
    /\ loopPc = [l \in Loops |-> "none"]
    /\ callPc = [h \in Calls |-> "idle"]
    /\ callReq = [h \in Calls |-> 0]
    /\ fetched = <<>>
    /\ processed = <<>>

\* the bodies of PUT /api/apikey: bad JSON, no key, one key
KeyRequests == {-1, 0, 1}

\* stopListener, under listenMu
stopListener ==
    /\ cancelledCtx' = IF listenCan # 0 THEN cancelledCtx \cup {listenCan}
                       ELSE cancelledCtx
    /\ listenCan' = 0
    /\ listening' = FALSE

\* apiSetAPIKeys up to cfgMu.Unlock: the keys are stored
apiSetAPIKeys(h, req) ==
    /\ callPc[h] = "idle"
    /\ callReq' = [callReq EXCEPT ![h] = req]
    /\ IF req < 0
       THEN /\ callPc' = [callPc EXCEPT ![h] = "done"]
            /\ UNCHANGED apiKeys
       ELSE /\ apiKeys' = req
            /\ callPc' = [callPc EXCEPT ![h] = IF req >= 1 THEN "start" ELSE "stop"]
    /\ UNCHANGED <<listenCan, listening, cancelledCtx, loopPc, fetched, processed>>

\* tryStartListener, the read of len(cfg.APIKeys) under cfgMu.RLock
tryStartListenerKeys(h) ==
    /\ callPc[h] = "start"
    /\ callPc' = [callPc EXCEPT ![h] = IF apiKeys < 1 THEN "done" ELSE "lock"]
    /\ UNCHANGED <<apiKeys, listenCan, listening, cancelledCtx, loopPc, callReq,
                   fetched, processed>>

\* tryStartListener under listenMu: nothing when listenCan is set, otherwise
\* a new context and go listenerLoop(ctx)
tryStartListener(h) ==
    /\ callPc[h] = "lock"
    /\ IF listenCan # 0
       THEN UNCHANGED <<listenCan, listening, loopPc>>
       ELSE \E l \in Loops :
                /\ loopPc[l] = "none" /\ \A k \in Loops : k < l => loopPc[k] # "none"
                /\ listenCan' = l
                /\ listening' = TRUE
                /\ loopPc' = [loopPc EXCEPT ![l] = "select"]
    /\ callPc' = [callPc EXCEPT ![h] = "done"]
    /\ UNCHANGED <<apiKeys, cancelledCtx, callReq, fetched, processed>>

\* apiSetAPIKeys with no key: stopListener
apiStopListener(h) ==
    /\ callPc[h] = "stop"
    /\ stopListener
    /\ callPc' = [callPc EXCEPT ![h] = "done"]
    /\ UNCHANGED <<apiKeys, loopPc, callReq, fetched, processed>>

\* listenerLoop, select: case <-ctx.Done()
loopDone(l) ==
    /\ loopPc[l] = "select" /\ l \in cancelledCtx
    /\ loopPc' = [loopPc EXCEPT ![l] = "done"]
    /\ UNCHANGED <<apiKeys, listenCan, listening, cancelledCtx, callPc, callReq,
                   fetched, processed>>

\* listenerLoop, select: case <-ticker.C, which select may take also when
\* ctx.Done() is ready, and the read of cfg.APIKeys
loopTicker(l) ==
    /\ loopPc[l] = "select"
    /\ loopPc' = [loopPc EXCEPT ![l] = IF apiKeys < 1 THEN "stop" ELSE "fetch"]
    /\ UNCHANGED <<apiKeys, listenCan, listening, cancelledCtx, callPc, callReq,
                   fetched, processed>>

\* listenerLoop with no key: stopListener and return
loopStopListener(l) ==
    /\ loopPc[l] = "stop"
    /\ stopListener
    /\ loopPc' = [loopPc EXCEPT ![l] = "done"]
    /\ UNCHANGED <<apiKeys, callPc, callReq, fetched, processed>>

\* listenerLoop, fetchNowBlock returns: an error continues the loop, a block
\* goes on to processBlock
loopFetch(l, ok) ==
    /\ loopPc[l] = "fetch"
    /\ IF ok
       THEN /\ Len(fetched) < MaxTicks
            /\ fetched' = Append(fetched, l)
            /\ loopPc' = [loopPc EXCEPT ![l] = "process"]
       ELSE /\ loopPc' = [loopPc EXCEPT ![l] = "select"]
            /\ UNCHANGED fetched
    /\ UNCHANGED <<apiKeys, listenCan, listening, cancelledCtx, callPc, callReq,
                   processed>>

\* listenerLoop, processBlock returns
loopProcessBlock(l) ==
    /\ loopPc[l] = "process"
    /\ processed' = Append(processed, l)
    /\ loopPc' = [loopPc EXCEPT ![l] = "select"]
    /\ UNCHANGED <<apiKeys, listenCan, listening, cancelledCtx, callPc, callReq,
                   fetched>>

\* ------------------------------------------------ the running.lock marker
VARIABLES
    lockFile, \* data/running.lock exists
    running,  \* a process runs
    ends,     \* how each run ended so far: "exit" or "crash"
    logged    \* for each boot so far, whether it logged ABNORMAL_RESTART

lvars == <<lockFile, running, ends, logged>>

LStart == lockFile = FALSE /\ running = FALSE /\ ends = <<>> /\ logged = <<>>

\* a mutant of CheckAbnormalRestart: the lock is written only when absent
\* and the boot that finds it removes it
CheckAbnormalRestartConsume(lock) == [log |-> lock, lock |-> ~lock]

\* os.Stat, ABNORMAL_RESTART, os.WriteFile
CheckAbnormalRestart(lock) == [log |-> lock, lock |-> TRUE]

\* os.Remove
MarkNormalExit(lock) == FALSE

\* the boot of main (main.go) or of the app package
Boot ==
    /\ ~running /\ Len(logged) < MaxRuns
    /\ running' = TRUE
    /\ logged' = Append(logged, CheckAbnormalRestart(lockFile).log)
    /\ lockFile' = CheckAbnormalRestart(lockFile).lock
    /\ UNCHANGED ends

\* main returns and its deferred os.Remove runs; MarkNormalExit
GracefulExit ==
    /\ running
    /\ running' = FALSE
    /\ lockFile' = MarkNormalExit(lockFile)
    /\ ends' = Append(ends, "exit")
    /\ UNCHANGED logged

\* the process is killed: no deferred function runs
Crash ==
    /\ running
    /\ running' = FALSE
    /\ ends' = Append(ends, "crash")
    /\ UNCHANGED <<lockFile, logged>>

\* ------------------------------------------------ SpecMachine: variables
VARIABLES
    mach,   \* the Machine under test: [Config, Runtime]
    call,   \* the last call made on it: "New", "ResetRuntime" or "Process"
    arg,    \* the (height, state) of the last Process call
    old,    \* mach.Runtime as it was before the last call
    ret,    \* the *Signal the last Process call returned
    obs     \* what an observer of the calls and their results has recorded

mvars == <<mach, call, arg, old, ret, obs>>

\* S2 of the specification: ON, ON, ON, OFF, ON, ON
Scenario == <<ON, ON, ON, OFF, ON, ON>>

\* the observer after New: nothing seen yet
ObsNew ==
    [reversed |-> FALSE,  \* a state # TriggerState was processed since New / reset
     scen |-> 0,          \* events since New / reset follow Scenario so far (-1: no)
     scenTrig |-> 0,      \* TRIGGERs returned during those events
     fired |-> FALSE,     \* the last processed event returned a TRIGGER
     prevTrig |-> FALSE,  \* a TRIGGER was returned before the events of since
     since |-> <<>>,      \* states processed after the previous TRIGGER (last MaxN+1)
     trigH |-> 0,         \* height of the most recent TRIGGER, 0 if none
     hits |-> 0,          \* HITs returned since the most recent TRIGGER
     skipped |-> FALSE,   \* the pending HIT was cleared by a height > target
     skTarget |-> 0,      \* the target height that was skipped
     lostTarget |-> 0]    \* target of a HIT that was pending at ResetRuntime

\* the observer after ResetRuntime: the boot observations restart
ObsReset(o, rt) ==
    [o EXCEPT !.reversed = FALSE, !.scen = 0, !.scenTrig = 0,
              !.lostTarget = IF rt.HitWaiting THEN rt.HitTarget ELSE @]

\* the observer after Process(height, state) took m to r.m and returned r.sig
ObsProcess(o, m, height, state, r) ==
    LET trig == r.sig.Type = "TRIGGER"
        hit == r.sig.Type = "HIT"
        skip == m.Runtime.HitWaiting /\ height > m.Runtime.HitTarget
        follows == o.scen >= 0 /\ o.scen < Len(Scenario)
                   /\ state = Scenario[o.scen + 1]
    IN [reversed |-> o.reversed \/ state # m.Config.TriggerState,
        scen |-> IF follows THEN o.scen + 1 ELSE -1,
        scenTrig |-> IF follows THEN o.scenTrig + (IF trig THEN 1 ELSE 0) ELSE 0,
        fired |-> trig,
        prevTrig |-> o.prevTrig \/ o.fired,
        since |-> LastN(Append(IF o.fired THEN <<>> ELSE o.since, state), MaxN + 1),
        trigH |-> IF trig THEN height ELSE o.trigH,
        hits |-> IF trig THEN 0 ELSE IF hit THEN o.hits + 1 ELSE o.hits,
        skipped |-> IF trig THEN FALSE ELSE o.skipped \/ skip,
        skTarget |-> IF trig THEN 0
                     ELSE IF skip THEN m.Runtime.HitTarget ELSE o.skTarget,
        lostTarget |-> IF trig THEN 0 ELSE o.lostTarget]

MStart ==
    /\ mach \in {New(cfg) : cfg \in {c \in Config : c.ID = "m1"}}
    /\ call = "New"
    /\ arg = NoArg
    /\ old = Runtime
    /\ ret = Nil
    /\ obs = ObsNew

MResetRuntime ==
    /\ mach' = ResetRuntime(mach)
    /\ call' = "ResetRuntime"
    /\ arg' = NoArg
    /\ old' = mach.Runtime
    /\ ret' = Nil
    /\ obs' = ObsReset(obs, mach.Runtime)

MProcess(height, state) ==
    LET r == Process(mach, height, state)
    IN /\ mach' = r.m
       /\ call' = "Process"
       /\ arg' = [height |-> height, state |-> state]
       /\ old' = mach.Runtime
       /\ ret' = r.sig
       /\ obs' = IF mach.Config.Enabled
                 THEN ObsProcess(obs, mach, height, state, r) ELSE obs

\* ------------------------------------------------------ specifications
\* Each specification drives one component and leaves the variables of the
\* others at Unused.
vars == <<gvars, mvars, rvars, dvars, jvars, pvars, hvars, lvars, nvars, evars, avars>>

GStart ==
    /\ machines = NewManager /\ mcall = "NewManager" /\ marg = NoArg
    /\ signals = <<>> /\ lost = NoLost /\ padd = NoAdd

GIdle ==
    /\ machines = Unused /\ mcall = Unused /\ marg = Unused
    /\ signals = Unused /\ lost = Unused /\ padd = Unused

MIdle ==
    /\ mach = Unused /\ call = Unused /\ arg = Unused /\ old = Unused
    /\ ret = Unused /\ obs = Unused

RIdle ==
    /\ ring = Unused /\ rcall = Unused /\ rarg = Unused /\ rret = Unused
    /\ rlog = Unused /\ rprev = Unused

DIdle ==
    /\ fetchers = Unused /\ dpc = Unused /\ fs = Unused /\ task = Unused
    /\ ch = Unused /\ chClosed = Unused /\ arrived = Unused
    /\ ctxDone = Unused /\ cctxDone = Unused /\ lastErr = Unused
    /\ dret = Unused

JIdle ==
    /\ jrule = Unused /\ jhash = Unused /\ jmain = Unused
    /\ jdecide = Unused /\ jengine = Unused

PIdle ==
    /\ pcfg = Unused /\ mainRt = Unused /\ sent = Unused /\ parg = Unused
    /\ prt = Unused /\ pobs = Unused /\ core = Unused

HIdle ==
    /\ wsClients = Unused /\ wsMu = Unused /\ conn = Unused /\ dead = Unused
    /\ peer = Unused /\ reader = Unused /\ bpc = Unused /\ todo = Unused
    /\ cur = Unused /\ sig = Unused /\ got = Unused /\ failed = Unused

LIdle ==
    /\ lockFile = Unused /\ running = Unused /\ ends = Unused /\ logged = Unused

NIdle ==
    /\ apiKeys = Unused /\ listenCan = Unused /\ listening = Unused
    /\ cancelledCtx = Unused /\ loopPc = Unused /\ callPc = Unused
    /\ callReq = Unused /\ fetched = Unused /\ processed = Unused

EIdle ==
    /\ dmu = Unused /\ snapAt = Unused /\ replPc = Unused /\ replList = Unused
    /\ held = Unused

AIdle ==
    /\ blkPc = Unused /\ blkArg = Unused /\ blkState = Unused /\ blkBy = Unused
    /\ blkRules = Unused /\ setPc = Unused /\ accBy = Unused /\ raceObs = Unused

\* SpecMachine: one Machine
MInit == MStart /\ GIdle /\ RIdle /\ DIdle /\ JIdle /\ PIdle /\ HIdle /\ LIdle /\ NIdle /\ EIdle /\ AIdle

MNext ==
    \/ MResetRuntime /\ UNCHANGED <<gvars, rvars, dvars, jvars, pvars, hvars, lvars, nvars, evars, avars>>
    \/ \E height \in Heights, state \in States :
           MProcess(height, state) /\ UNCHANGED <<gvars, rvars, dvars, jvars, pvars, hvars, lvars, nvars, evars, avars>>

SpecMachine == MInit /\ [][MNext]_vars

\* Spec: the Manager
Init == GStart /\ MIdle /\ RIdle /\ DIdle /\ JIdle /\ PIdle /\ HIdle /\ LIdle /\ NIdle /\ EIdle /\ AIdle

Next ==
    \/ \E cfg \in ManagerConfig : Add(cfg) /\ UNCHANGED <<mvars, rvars, dvars, jvars, pvars, hvars, lvars, nvars, evars, avars>>
    \/ \E id \in MachineIDs : Remove(id) /\ UNCHANGED <<mvars, rvars, dvars, jvars, pvars, hvars, lvars, nvars, evars, avars>>
    \/ ResetAllRuntime /\ UNCHANGED <<mvars, rvars, dvars, jvars, pvars, hvars, lvars, nvars, evars, avars>>
    \/ \E height \in 1..MgrMaxHeight, state \in States :
           ProcessBlock(height, state) /\ UNCHANGED <<mvars, rvars, dvars, jvars, pvars, hvars, lvars, nvars, evars, avars>>

Spec == Init /\ [][Next]_vars

\* SpecRing: one RingBuffer
RInit == RStart /\ GIdle /\ MIdle /\ DIdle /\ JIdle /\ PIdle /\ HIdle /\ LIdle /\ NIdle /\ EIdle /\ AIdle

RNext ==
    \/ \E b \in Blocks : RAddIfNew(b) /\ UNCHANGED <<gvars, mvars, dvars, jvars, pvars, hvars, lvars, nvars, evars, avars>>
    \/ RReset /\ UNCHANGED <<gvars, mvars, dvars, jvars, pvars, hvars, lvars, nvars, evars, avars>>

SpecRing == RInit /\ [][RNext]_vars

\* SpecDispatch: one FetchAny call on a Dispatcher
DInit == DStart /\ GIdle /\ MIdle /\ RIdle /\ JIdle /\ PIdle /\ HIdle /\ LIdle /\ NIdle /\ EIdle /\ AIdle

DNext ==
    \/ FetchAnyCall /\ UNCHANGED <<gvars, mvars, rvars, jvars, pvars, hvars, lvars, nvars, evars, avars>>
    \/ \E i \in 1..MaxFetchers, r \in RpcOutcomes \cup TronOutcomes :
           TaskSend(i, r) /\ UNCHANGED <<gvars, mvars, rvars, jvars, pvars, hvars, lvars, nvars, evars, avars>>
    \/ CloseChannel /\ UNCHANGED <<gvars, mvars, rvars, jvars, pvars, hvars, lvars, nvars, evars, avars>>
    \/ CancelParent /\ UNCHANGED <<gvars, mvars, rvars, jvars, pvars, hvars, lvars, nvars, evars, avars>>
    \/ SelectDone /\ UNCHANGED <<gvars, mvars, rvars, jvars, pvars, hvars, lvars, nvars, evars, avars>>
    \/ SelectReceive /\ UNCHANGED <<gvars, mvars, rvars, jvars, pvars, hvars, lvars, nvars, evars, avars>>
    \/ SelectClosed /\ UNCHANGED <<gvars, mvars, rvars, jvars, pvars, hvars, lvars, nvars, evars, avars>>

SpecDispatch == DInit /\ [][DNext]_vars

\* SpecDispatchFair: the goroutines of FetchAny keep running. FetchLatest
\* returns (the adapters' http.Client has a Timeout and their requests carry
\* the context), and the goroutine behind wg.Wait closes the channel
SpecDispatchFair ==
    /\ DInit /\ [][DNext]_vars
    /\ WF_dvars(\E i \in 1..MaxFetchers, r \in RpcOutcomes \cup TronOutcomes :
                    TaskSend(i, r))
    /\ WF_dvars(CloseChannel)

\* SpecJudge: the three classifiers on one (rule, hash)
JInit == JStart /\ GIdle /\ MIdle /\ RIdle /\ DIdle /\ PIdle /\ HIdle /\ LIdle /\ NIdle /\ EIdle /\ AIdle

JNext ==
    \/ CallJudgeState /\ UNCHANGED <<gvars, mvars, rvars, dvars, pvars, hvars, lvars, nvars, evars, avars>>
    \/ CallDecide /\ UNCHANGED <<gvars, mvars, rvars, dvars, pvars, hvars, lvars, nvars, evars, avars>>
    \/ CallEngineJudge /\ UNCHANGED <<gvars, mvars, rvars, dvars, pvars, hvars, lvars, nvars, evars, avars>>

SpecJudge == JInit /\ [][JNext]_vars

\* SpecMain: processBlock on the blocks the listener fetches
PInit == PStart /\ GIdle /\ MIdle /\ RIdle /\ DIdle /\ JIdle /\ HIdle /\ LIdle /\ NIdle /\ EIdle /\ AIdle

PNext ==
    \E reply \in FetchReplies :
        PBounded /\ listenerLoop(reply)
        /\ UNCHANGED <<gvars, mvars, rvars, dvars, jvars, hvars, lvars, nvars, evars, avars>>

SpecMain == PInit /\ [][PNext]_vars

\* SpecSwitch: the rule switches of both programs between the blocks
SwitchReplies ==
    {r \in FetchReplies : r.Number <= 1 /\ r.status # 500}

SInit ==
    /\ pcfg \in MainConfig /\ mainRt = RuntimeState /\ sent = <<>>
    /\ parg = NoBlockArg /\ prt = RuntimeState /\ pobs = NoObs
    /\ core = NewCore
    /\ GIdle /\ MIdle /\ RIdle /\ DIdle /\ JIdle /\ HIdle /\ LIdle /\ NIdle /\ EIdle /\ AIdle

SNext ==
    \/ \E reply \in SwitchReplies :
           mainRt.Ring.idx < SwitchMaxBlocks /\ listenerLoop(reply)
           /\ UNCHANGED <<gvars, mvars, rvars, dvars, jvars, hvars, lvars, nvars, evars, avars>>
    \/ \E req \in JudgeRequests :
           apiSetJudge(req) /\ UNCHANGED <<gvars, mvars, rvars, dvars, jvars, hvars, lvars, nvars, evars, avars>>
    \/ \E form \in SwitchForms :
           apiJudgeSwitchHandler(form)
           /\ UNCHANGED <<gvars, mvars, rvars, dvars, jvars, hvars, lvars, nvars, evars, avars>>
    \/ \E height \in 1..SwitchMaxBlocks :
           CoreBlock(height) /\ UNCHANGED <<gvars, mvars, rvars, dvars, jvars, hvars, lvars, nvars, evars, avars>>

SpecSwitch == SInit /\ [][SNext]_vars

\* SpecRules: the rules are replaced between the blocks
RulesReplies ==
    {r \in FetchReplies : r.Number <= 2 /\ r.err = NoErr /\ r.status = 200}

QInit == PInit

QNext ==
    \/ \E reply \in RulesReplies :
           mainRt.Ring.idx < SwitchMaxBlocks /\ listenerLoop(reply)
           /\ UNCHANGED <<gvars, mvars, rvars, dvars, jvars, hvars, lvars, nvars, evars, avars>>
    \/ \E req \in RulesRequests :
           apiSetRules(req) /\ UNCHANGED <<gvars, mvars, rvars, dvars, jvars, hvars, lvars, nvars, evars, avars>>

SpecRules == QInit /\ [][QNext]_vars

\* SpecWindow: one run on the blocks of a chain, as long as it takes to
\* fill the dedup ring and evict its oldest keys
ChainHash(height) == IF height % 3 = 0 THEN <<"g", "8">> ELSE <<"a", "3">>

WindowConfig ==
    [JudgeRule |-> "LUCKY",
     Rules |-> [On |-> [Enabled |-> TRUE, Threshold |-> 2],
                Off |-> [Enabled |-> TRUE, Threshold |-> 1],
                Hit |-> [Enabled |-> TRUE, Expect |-> "ON", Offset |-> 1]]]

WInit ==
    /\ pcfg = WindowConfig /\ mainRt = RuntimeState /\ sent = <<>>
    /\ parg = NoBlockArg /\ prt = RuntimeState /\ pobs = NoObs
    /\ core = Unused
    /\ GIdle /\ MIdle /\ RIdle /\ DIdle /\ JIdle /\ HIdle /\ LIdle /\ NIdle /\ EIdle /\ AIdle

WNext ==
    \E height \in 1..(ringSize + MaxEvictions) :
        /\ Len(pobs.recorded) < ringSize + MaxEvictions
        /\ height <= Len(pobs.recorded) + 1
        /\ listenerLoop(BlockReply(ChainHash(height), height))
        /\ UNCHANGED <<gvars, mvars, rvars, dvars, jvars, hvars, lvars, nvars, evars, avars>>

SpecWindow == WInit /\ [][WNext]_vars

\* SpecHub: the subscribers of /ws and the broadcasts of the listener
HInit == HStart /\ GIdle /\ MIdle /\ RIdle /\ DIdle /\ JIdle /\ PIdle /\ LIdle /\ NIdle /\ EIdle /\ AIdle

HNext ==
    \/ \E c \in Clients, handshake \in BOOLEAN :
           wsHandler(c, handshake)
           /\ UNCHANGED <<gvars, mvars, rvars, dvars, jvars, pvars, lvars, nvars, evars, avars>>
    \/ \E c \in Clients :
           PeerStalls(c) /\ UNCHANGED <<gvars, mvars, rvars, dvars, jvars, pvars, lvars, nvars, evars, avars>>
    \/ \E c \in Clients :
           PeerResumes(c) /\ UNCHANGED <<gvars, mvars, rvars, dvars, jvars, pvars, lvars, nvars, evars, avars>>
    \/ \E c \in Clients :
           PeerLeaves(c) /\ UNCHANGED <<gvars, mvars, rvars, dvars, jvars, pvars, lvars, nvars, evars, avars>>
    \/ \E c \in Clients :
           ReaderReturns(c) /\ UNCHANGED <<gvars, mvars, rvars, dvars, jvars, pvars, lvars, nvars, evars, avars>>
    \/ \E c \in Clients :
           ReaderCleanup(c) /\ UNCHANGED <<gvars, mvars, rvars, dvars, jvars, pvars, lvars, nvars, evars, avars>>
    \/ BroadcastLock /\ UNCHANGED <<gvars, mvars, rvars, dvars, jvars, pvars, lvars, nvars, evars, avars>>
    \/ \E c \in Clients :
           BroadcastVisit(c) /\ UNCHANGED <<gvars, mvars, rvars, dvars, jvars, pvars, lvars, nvars, evars, avars>>
    \/ WriteReturns /\ UNCHANGED <<gvars, mvars, rvars, dvars, jvars, pvars, lvars, nvars, evars, avars>>
    \/ BroadcastUnlock /\ UNCHANGED <<gvars, mvars, rvars, dvars, jvars, pvars, lvars, nvars, evars, avars>>

SpecHub == HInit /\ [][HNext]_vars

\* SpecHubFair: the goroutines are scheduled. The listener goes on in
\* broadcastSignal whenever it can, a read goroutine whose wsReadLoop can
\* return does return, and a goroutine waiting for wsMu gets it (sync.Mutex
\* hands the lock to a starving waiter); nothing obliges a remote end to read.
SpecHubFair ==
    /\ HInit /\ [][HNext]_vars
    /\ WF_hvars(\E c \in Clients : BroadcastVisit(c))
    /\ WF_hvars(WriteReturns)
    /\ WF_hvars(BroadcastUnlock)
    /\ \A c \in Clients : WF_hvars(ReaderReturns(c))
    /\ \A c \in Clients : SF_hvars(ReaderCleanup(c))

\* SpecLife: boots, graceful exits and crashes of the process
LInit == LStart /\ GIdle /\ MIdle /\ RIdle /\ DIdle /\ JIdle /\ PIdle /\ HIdle /\ NIdle /\ EIdle /\ AIdle

LNext ==
    \/ Boot /\ UNCHANGED <<gvars, mvars, rvars, dvars, jvars, pvars, hvars, nvars, evars, avars>>
    \/ GracefulExit /\ UNCHANGED <<gvars, mvars, rvars, dvars, jvars, pvars, hvars, nvars, evars, avars>>
    \/ Crash /\ UNCHANGED <<gvars, mvars, rvars, dvars, jvars, pvars, hvars, nvars, evars, avars>>

SpecLife == LInit /\ [][LNext]_vars

\* SpecReplace: one FetchAny beside the ReplaceAll calls of the UI
ReplaceOutcomes ==
    {o \in RpcOutcomes \cup TronOutcomes : o.err \in {NoErr, "net"}}

EInit == EStart /\ GIdle /\ MIdle /\ RIdle /\ JIdle /\ PIdle /\ HIdle /\ LIdle /\ NIdle /\ AIdle

ENext ==
    \/ snapshotRLock /\ UNCHANGED <<gvars, mvars, rvars, jvars, pvars, hvars, lvars, nvars, avars>>
    \/ snapshotCopy /\ UNCHANGED <<gvars, mvars, rvars, jvars, pvars, hvars, lvars, nvars, avars>>
    \/ FetchAnyLaunch /\ UNCHANGED <<gvars, mvars, rvars, jvars, pvars, hvars, lvars, nvars, avars>>
    \/ \E list \in ReplaceLists :
           ReplaceAll(list)
           /\ UNCHANGED <<gvars, mvars, rvars, jvars, pvars, hvars, lvars, nvars, avars>>
    \/ ReplaceAllStore /\ UNCHANGED <<gvars, mvars, rvars, jvars, pvars, hvars, lvars, nvars, avars>>
    \/ ReplaceAllUnlock /\ UNCHANGED <<gvars, mvars, rvars, jvars, pvars, hvars, lvars, nvars, avars>>
    \/ \E i \in 1..MaxFetchers, r \in ReplaceOutcomes :
           dpc \in {"loop", "done"} /\ TaskSend(i, r)
           /\ UNCHANGED <<gvars, mvars, rvars, jvars, pvars, hvars, lvars, nvars, evars, avars>>
    \/ dpc \in {"loop", "done"} /\ CloseChannel
       /\ UNCHANGED <<gvars, mvars, rvars, jvars, pvars, hvars, lvars, nvars, evars, avars>>
    \/ SelectReceive
       /\ UNCHANGED <<gvars, mvars, rvars, jvars, pvars, hvars, lvars, nvars, evars, avars>>
    \/ SelectClosed
       /\ UNCHANGED <<gvars, mvars, rvars, jvars, pvars, hvars, lvars, nvars, evars, avars>>

SpecReplace == EInit /\ [][ENext]_vars

\* SpecRace: the blocks of the listener beside the rule switches
AInit ==
    /\ PStart /\ AStart
    /\ GIdle /\ MIdle /\ RIdle /\ DIdle /\ JIdle /\ HIdle /\ LIdle /\ NIdle /\ EIdle

ANext ==
    \/ \E height \in 1..SwitchMaxBlocks, hash \in MainHashes :
           mainRt.Ring.idx < SwitchMaxBlocks /\ processBlockDedup(height, hash)
           /\ UNCHANGED <<gvars, mvars, rvars, dvars, jvars, hvars, lvars, nvars, evars>>
    \/ processBlockJudge /\ UNCHANGED <<gvars, mvars, rvars, dvars, jvars, hvars, lvars, nvars, evars>>
    \/ processBlockRules /\ UNCHANGED <<gvars, mvars, rvars, dvars, jvars, hvars, lvars, nvars, evars>>
    \/ processBlockRun /\ UNCHANGED <<gvars, mvars, rvars, dvars, jvars, hvars, lvars, nvars, evars>>
    \/ \E req \in JudgeRequests :
           apiSetJudgeStore(req) /\ UNCHANGED <<gvars, mvars, rvars, dvars, jvars, hvars, lvars, nvars, evars>>
    \/ apiSetJudgeDisable /\ UNCHANGED <<gvars, mvars, rvars, dvars, jvars, hvars, lvars, nvars, evars>>
    \/ apiSetJudgeReset /\ UNCHANGED <<gvars, mvars, rvars, dvars, jvars, hvars, lvars, nvars, evars>>

SpecRace == AInit /\ [][ANext]_vars

\* SpecListen: the handlers of PUT /api/apikey and the listener loops
NInit == NStart /\ GIdle /\ MIdle /\ RIdle /\ DIdle /\ JIdle /\ PIdle /\ HIdle /\ LIdle /\ EIdle /\ AIdle

NNext ==
    \/ \E h \in Calls, req \in KeyRequests :
           apiSetAPIKeys(h, req)
           /\ UNCHANGED <<gvars, mvars, rvars, dvars, jvars, pvars, hvars, lvars, evars, avars>>
    \/ \E h \in Calls :
           tryStartListenerKeys(h)
           /\ UNCHANGED <<gvars, mvars, rvars, dvars, jvars, pvars, hvars, lvars, evars, avars>>
    \/ \E h \in Calls :
           tryStartListener(h)
           /\ UNCHANGED <<gvars, mvars, rvars, dvars, jvars, pvars, hvars, lvars, evars, avars>>
    \/ \E h \in Calls :
           apiStopListener(h)
           /\ UNCHANGED <<gvars, mvars, rvars, dvars, jvars, pvars, hvars, lvars, evars, avars>>
    \/ \E l \in Loops :
           loopDone(l) /\ UNCHANGED <<gvars, mvars, rvars, dvars, jvars, pvars, hvars, lvars, evars, avars>>
    \/ \E l \in Loops :
           loopTicker(l) /\ UNCHANGED <<gvars, mvars, rvars, dvars, jvars, pvars, hvars, lvars, evars, avars>>
    \/ \E l \in Loops :
           loopStopListener(l)
           /\ UNCHANGED <<gvars, mvars, rvars, dvars, jvars, pvars, hvars, lvars, evars, avars>>
    \/ \E l \in Loops, ok \in BOOLEAN :
           loopFetch(l, ok)
           /\ UNCHANGED <<gvars, mvars, rvars, dvars, jvars, pvars, hvars, lvars, evars, avars>>
    \/ \E l \in Loops :
           loopProcessBlock(l)
           /\ UNCHANGED <<gvars, mvars, rvars, dvars, jvars, pvars, hvars, lvars, evars, avars>>

SpecListen == NInit /\ [][NNext]_vars

\* ------------------------------------------------- SpecMachine: claims
Cfg == mach.Config

\* C1: with trigger_count >= 1, an event processed while waiting_reverse was
\* true before the event never returns a TRIGGER.
C1_NoTriggerWhileWaitingReverse ==
    (call = "Process" /\ Cfg.TriggerCount >= 1 /\ old.WaitingReverse)
        => ret.Type # "TRIGGER"

\* the event right after a TRIGGER carries trigger_state, threshold 1, no HIT
\* pending: only the gate keeps it from firing
C1_Witness ==
    /\ call = "Process" /\ Cfg.Enabled /\ Cfg.TriggerCount = 1
    /\ old.WaitingReverse /\ ~old.HitWaiting /\ obs.prevTrig
    /\ Len(obs.since) = 1 /\ arg.state = Cfg.TriggerState
    /\ ret = Nil

\* C2: with trigger_count = N >= 1, the events processed after one TRIGGER up
\* to and including the next TRIGGER end with an event of state #
\* trigger_state followed by N events of state = trigger_state; so the event
\* right after a TRIGGER never returns a TRIGGER.
C2_ReverseThenRunBetweenTriggers ==
    (call = "Process" /\ Cfg.TriggerCount >= 1 /\ obs.fired /\ obs.prevTrig)
        => LET n == Cfg.TriggerCount
               len == Len(obs.since)
           IN /\ len >= n + 1
              /\ obs.since[len - n] # Cfg.TriggerState
              /\ \A i \in (len - n + 1)..len : obs.since[i] = Cfg.TriggerState

C2_Witness ==
    /\ call = "Process" /\ Cfg.TriggerCount = 2
    /\ obs.fired /\ obs.prevTrig /\ ret.Type = "TRIGGER"

\* C3: after New or ResetRuntime no TRIGGER is returned before an event with
\* state # trigger_state was processed; with trigger_state = ON and
\* trigger_count = 2 the events ON, ON, ON, OFF, ON, ON return exactly one
\* TRIGGER, on the last of them.
C3_BootGate ==
    /\ (call = "Process" /\ ret.Type = "TRIGGER") => obs.reversed
    /\ (Cfg.Enabled /\ Cfg.TriggerState = ON /\ Cfg.TriggerCount = 2
        /\ obs.scen >= 0)
        => /\ obs.scenTrig = (IF obs.scen = Len(Scenario) THEN 1 ELSE 0)
           /\ obs.scen = Len(Scenario) => ret.Type = "TRIGGER"

C3_Witness ==
    /\ Cfg.Enabled /\ Cfg.TriggerState = ON /\ Cfg.TriggerCount = 2
    /\ obs.scen = Len(Scenario) /\ obs.scenTrig = 1
    /\ call = "Process" /\ ret.Type = "TRIGGER"

\* C4: with hit_enabled and hit_offset >= 1, at most one HIT is returned after
\* each TRIGGER, and a HIT is returned only on an event whose height is the
\* height of the most recent TRIGGER plus hit_offset.
C4_OneHitAtTriggerPlusOffset ==
    /\ obs.hits <= 1
    /\ (call = "Process" /\ ret.Type = "HIT")
        => /\ Cfg.HitEnabled /\ Cfg.HitOffset >= 1
           /\ obs.trigH > 0
           /\ arg.height = obs.trigH + Cfg.HitOffset

\* the target height comes a second time, with the expected state, after the
\* HIT was returned: no second HIT
C4_Witness ==
    /\ call = "Process" /\ obs.hits = 1 /\ ~old.HitWaiting
    /\ arg.height = obs.trigH + Cfg.HitOffset /\ arg.state = Cfg.HitExpect
    /\ ret.Type # "HIT"

\* C5: an event at hit_target_height processed while a HIT is pending returns
\* a HIT iff its state equals hit_expect; hit_waiting is false afterwards
\* either way, and on a mismatch nothing is returned.
C5_HitIffExpected ==
    (call = "Process" /\ Cfg.Enabled /\ old.HitWaiting
     /\ arg.height = old.HitTarget)
        => /\ (ret.Type = "HIT") <=> (arg.state = Cfg.HitExpect)
           /\ ~mach.Runtime.HitWaiting
           /\ (arg.state # Cfg.HitExpect) => ret = Nil

C5_Witness ==
    /\ call = "Process" /\ Cfg.Enabled /\ old.HitWaiting
    /\ arg.height = old.HitTarget /\ arg.state # Cfg.HitExpect
    /\ ret = Nil /\ ~mach.Runtime.HitWaiting

\* C6: an event with height > hit_target_height processed while a HIT is
\* pending clears hit_waiting and returns no HIT, and no later event returns
\* a HIT for that trigger, the target height included.
C6_SkippedTargetNeverHits ==
    /\ (call = "Process" /\ Cfg.Enabled /\ old.HitWaiting
        /\ arg.height > old.HitTarget)
        => ~mach.Runtime.HitWaiting /\ ret.Type # "HIT"
    /\ (call = "Process" /\ ret.Type = "HIT") => ~obs.skipped

\* after the skip the target height arrives with the expected state
C6_Witness ==
    /\ call = "Process" /\ Cfg.Enabled /\ obs.skipped
    /\ arg.height = obs.skTarget /\ arg.state = Cfg.HitExpect
    /\ ret.Type # "HIT" /\ ~mach.Runtime.HitWaiting

\* The handler of section 4.6 of the specification: HIT phase, reverse gate,
\* counting and trigger check applied in this order to every single event.
SpecHandler(m, height, state) ==
    LET rt == m.Runtime
        cf == m.Config
        atTarget == rt.HitWaiting /\ height = rt.HitTarget
        past == rt.HitWaiting /\ height > rt.HitTarget
        hitSig == IF atTarget /\ state = cf.HitExpect
                  THEN <<Signal(cf.ID, "HIT", height)>> ELSE <<>>
        rt1 == [rt EXCEPT !.HitWaiting = IF atTarget \/ past THEN FALSE ELSE @]
        stop == rt1.WaitingReverse /\ state = cf.TriggerState
        rt2 == IF rt1.WaitingReverse /\ state # cf.TriggerState
               THEN [rt1 EXCEPT !.WaitingReverse = FALSE, !.Count = 0] ELSE rt1
        rt3 == [rt2 EXCEPT !.Count = IF state = cf.TriggerState THEN @ + 1 ELSE 0]
        fire == rt3.Count >= cf.TriggerCount
        arm == cf.HitEnabled /\ cf.HitOffset >= 1
        rt4 == [rt3 EXCEPT !.Count = 0, !.WaitingReverse = TRUE,
                           !.HitWaiting = IF arm THEN TRUE ELSE @,
                           !.HitTarget = IF arm THEN height + cf.HitOffset ELSE @]
    IN IF ~cf.Enabled THEN [rt |-> rt, sigs |-> <<>>]
       ELSE IF stop THEN [rt |-> rt1, sigs |-> hitSig]
       ELSE IF fire
            THEN [rt |-> rt4,
                  sigs |-> hitSig \o <<Signal(cf.ID, "TRIGGER", height)>>]
            ELSE [rt |-> rt3, sigs |-> hitSig]

\* count, waiting_reverse, hit_waiting, and hit_target_height while it is valid
SameRuntime(a, b) ==
    /\ a.Count = b.Count
    /\ a.WaitingReverse = b.WaitingReverse
    /\ a.HitWaiting = b.HitWaiting
    /\ a.HitWaiting => a.HitTarget = b.HitTarget

\* C7: with trigger_count >= 1, Process leaves the runtime and returns the
\* signals that the handler of the specification yields for the same event
\* from the same runtime.
C7_ProcessEqualsSpecHandler ==
    (call = "Process" /\ Cfg.TriggerCount >= 1)
        => LET sp == SpecHandler([Config |-> Cfg, Runtime |-> old],
                                 arg.height, arg.state)
           IN /\ SameRuntime(mach.Runtime, sp.rt)
              /\ sp.sigs = (IF ret = Nil THEN <<>> ELSE <<ret>>)

\* C8: with trigger_count = N >= 1, 0 <= count <= N after every call.
C8_CountWithinBounds ==
    Cfg.TriggerCount >= 1
        => mach.Runtime.Count >= 0 /\ mach.Runtime.Count <= Cfg.TriggerCount

\* a run one short of the threshold has been counted
C8_Witness ==
    /\ call = "Process" /\ Cfg.TriggerCount = MaxN
    /\ mach.Runtime.Count = MaxN - 1 /\ old.Count = MaxN - 2
    /\ ~mach.Runtime.WaitingReverse

\* ---------------------------------------------------------- Spec: claims
\* C9: after ResetAllRuntime, which calls ResetRuntime on every machine, each
\* machine has count = 0, waiting_reverse = true and hit_waiting = false
\* whatever its runtime was; a HIT that was pending at the reset is never
\* returned afterwards.
C9_ResetClearsRuntime ==
    /\ mcall = "ResetAllRuntime"
        => \A id \in DOMAIN machines :
              /\ machines[id].Runtime.Count = 0
              /\ machines[id].Runtime.WaitingReverse
              /\ ~machines[id].Runtime.HitWaiting
    /\ mcall = "ProcessBlock"
        => \A i \in 1..Len(signals) :
              signals[i].Type = "HIT" => lost[signals[i].MachineID] = 0

\* the block at the target height of a HIT that a reset cleared arrives with
\* the expected state, and the machine returns no HIT
C9_Witness ==
    /\ mcall = "ProcessBlock"
    /\ \E id \in DOMAIN machines :
          /\ machines[id].Config.Enabled
          /\ lost[id] = marg.height
          /\ marg.state = machines[id].Config.HitExpect
          /\ \A i \in 1..Len(signals) :
                ~(signals[i].MachineID = id /\ signals[i].Type = "HIT")

\* the ascending order of the machine ids
IdRank == [m1 |-> 1, m2 |-> 2]

\* C10: the signals ProcessBlock returns for one block are in ascending order
\* of machine id.
C10_SignalsAscendingById ==
    mcall = "ProcessBlock"
        => \A i, j \in 1..Len(signals) :
              i < j => IdRank[signals[i].MachineID] < IdRank[signals[j].MachineID]

\* C11: after Add(cfg) the machine stored under cfg.ID has the configuration
\* cfg and the initial runtime, whatever was stored under that id before,
\* and the machines under the other ids are the ones that were there.
C11_AddReplacesAndResets ==
    [][mcall' = "Add"
        => /\ DOMAIN machines' = DOMAIN machines \cup {padd'.cfg.ID}
           /\ machines'[padd'.cfg.ID].Config = padd'.cfg
           /\ machines'[padd'.cfg.ID].Runtime.Count = 0
           /\ machines'[padd'.cfg.ID].Runtime.WaitingReverse
           /\ ~machines'[padd'.cfg.ID].Runtime.HitWaiting
           /\ \A id \in DOMAIN machines \ {padd'.cfg.ID} :
                 machines'[id] = machines[id]]_vars

\* Add has replaced a machine that had left its initial runtime, next to
\* another machine that has a HIT pending
C11_Witness ==
    /\ mcall = "Add" /\ padd.found = "running"
    /\ \E id \in DOMAIN machines \ {padd.cfg.ID} : machines[id].Runtime.HitWaiting

\* ------------------------------------------------------ SpecRing: claims
\* the elements of a sequence
Range(seq) == {seq[i] : i \in 1..Len(seq)}

\* C12: AddIfNew(b) returns true iff the pair (height, hash) of b is not among
\* the cap pairs inserted last; a pair that differs in the hash only is
\* another pair; after cap + 1 distinct pairs the first one is new again and
\* the last one is a duplicate.
C12_NewIffOutsideWindow ==
    rcall = "AddIfNew"
        => LET k == Key(rarg)
               n == Len(rprev)
           IN /\ rret <=> k \notin Range(LastN(rprev, ring.cap))
              /\ n >= ring.cap + 1
                  => /\ k = rprev[n - ring.cap] => rret
                     /\ k = rprev[n] => ~rret

\* cap + 1 pairs were inserted, the latest with the height of the first and
\* the other hash; the first is added again and is new
C12_Witness ==
    /\ rcall = "AddIfNew" /\ ring.cap = RingCap /\ rret
    /\ Len(rprev) = RingCap + 1
    /\ Key(rarg) = rprev[1]
    /\ rprev[RingCap + 1].Height = rprev[1].Height
    /\ rprev[RingCap + 1].Hash # rprev[1].Hash

\* -------------------------------------------------- SpecDispatch: claims
\* the value of a decimal string, -1 if it is empty or has another character
RECURSIVE DecimalValue(_)
DecimalValue(h) ==
    LET c == h[Len(h)]
        d == IF HexValue(c) \in 0..9 THEN HexValue(c) ELSE -1
        rest == DecimalValue(SubSeq(h, 1, Len(h) - 1))
    IN IF Len(h) = 0 THEN -1
       ELSE IF d < 0 THEN -1
       ELSE IF Len(h) = 1 THEN d
       ELSE IF rest < 0 THEN -1 ELSE rest * 10 + d

\* the data model's invariant: a non-empty hash and a decimal height > 0
ValidBlock(b) == b # NilBlock /\ b.Hash # "" /\ DecimalValue(b.Height) > 0

ValidResult(r) == r.err = NoErr /\ ValidBlock(r.b)

\* the number of results FetchAny has received from the channel
Received == Len(arrived) - Len(ch)

\* C13: a block that FetchAny returns is the first valid block that arrived
\* on the result channel, whichever adapter sent it; the child context is
\* cancelled when it returns, and nothing that arrived after the winner is
\* received.
C13_FirstValidArrivalWins ==
    (dpc = "done" /\ dret.b # NilBlock) =>
        /\ Received >= 1
        /\ arrived[Received].b = dret.b
        /\ ValidResult(arrived[Received])
        /\ \A j \in 1..(Received - 1) : ~ValidResult(arrived[j])
        /\ cctxDone

\* C14: with no enabled adapter in the snapshot (an empty list, or only
\* disabled adapters) FetchAny returns no block and the error no_sources.
C14_NoSourcesWhenNoneEnabled ==
    (dpc = "done" /\ \A i \in 1..Len(fs) : ~fs[i].Enabled) =>
        dret = Failure("no_sources")

\* C15: when every launched task has failed and the caller's ctx is not
\* cancelled, FetchAny returns no block and the error all_sources_failed
\* (stated for the tasks that fail with an error, the plainest failure).
C15_AllSourcesFailed ==
    (/\ dpc = "done" /\ ~ctxDone
     /\ Launched # {} /\ \A i \in Launched : task[i] = "done"
     /\ \A k \in 1..Len(arrived) : arrived[k].err # NoErr) =>
        dret = Failure("all_sources_failed")

\* C16: when the caller's ctx is cancelled before FetchAny has received a
\* valid block, FetchAny returns the context's cancellation error, also
\* when adapters reported errors before (stated for the calls in which
\* every result that arrives is an error, so that no block can win).
C16_CancellationErrorOnCancel ==
    (/\ dpc = "done" /\ ctxDone /\ Launched # {}
     /\ \A k \in 1..Len(arrived) : arrived[k].err # NoErr) =>
        dret = Failure(Canceled)

\* C17: every block FetchAny returns has a non-empty hash and a decimal
\* height > 0; a reply with an empty hash or a height <= 0 never wins.
C17_ReturnedBlockIsValid ==
    (dpc = "done" /\ dret.b # NilBlock) => ValidBlock(dret.b)

\* ----------------------------------------------------- SpecJudge: claims
\* the specification's classifier: ON, OFF or UNCLASSIFIABLE
SpecDigits == {"0", "1", "2", "3", "4", "5", "6", "7", "8", "9"}
SpecHexLetters == {"a", "b", "c", "d", "e", "f"}

RECURSIVE SpecLastDigit(_)
SpecLastDigit(h) ==
    IF h = <<>> THEN -1
    ELSE IF h[Len(h)] \in SpecDigits THEN HexValue(h[Len(h)])
    ELSE SpecLastDigit(SubSeq(h, 1, Len(h) - 1))

SpecClassify(rule, hash) ==
    LET h == ToLower(hash)
        a == h[Len(h) - 1]
        b == h[Len(h)]
        d == SpecLastDigit(hash)
    IN CASE rule = "LUCKY" ->
              IF Len(h) < 2 THEN "UNCLASSIFIABLE"
              ELSE IF ~({a, b} \subseteq SpecDigits \cup SpecHexLetters)
              THEN "UNCLASSIFIABLE"
              ELSE IF (a \in SpecDigits) # (b \in SpecDigits) THEN "ON" ELSE "OFF"
         [] rule = "BIGSMALL" ->
              IF d < 0 THEN "UNCLASSIFIABLE" ELSE IF d <= 4 THEN "ON" ELSE "OFF"
         [] rule = "ODDEVEN" ->
              IF d < 0 THEN "UNCLASSIFIABLE" ELSE IF d % 2 = 0 THEN "ON" ELSE "OFF"

MainOutcome == IF jmain[1].ok THEN jmain[1].state ELSE "UNCLASSIFIABLE"

\* C18 as stated: judgeState equals the specification's classifier applied
\* to the hash itself, for every hash and rule.
C18_JudgeStateEqualsSpecOnRawHash ==
    jmain # <<>> => MainOutcome = SpecClassify(NormalRule(jrule), jhash)

\* C18: judgeState equals the specification's classifier applied to the
\* hash with its leading and trailing white space removed, for every hash
\* and rule; the result is a function of (rule, hash).
C18_JudgeStateEqualsSpecOnTrimmedHash ==
    jmain # <<>> =>
        MainOutcome = SpecClassify(NormalRule(jrule), TrimSpace(jhash))

\* a LUCKY call that classifies a hash ending in white space
C18_Witness ==
    /\ jmain # <<>> /\ jmain[1].ok
    /\ NormalRule(jrule) = "LUCKY"
    /\ jhash # <<>> /\ jhash[Len(jhash)] = " "

\* C19: Judge.Decide and Engine.Judge report UNCLASSIFIABLE where the
\* specification's classifier does, and its ON / OFF elsewhere.
C19_JudgePackageEqualsSpec ==
    /\ jdecide # <<>> =>
           (IF jdecide[1] = ON THEN "ON" ELSE "OFF")
               = SpecClassify(NormalRule(jrule), jhash)
    /\ jengine # <<>> =>
           (IF jengine[1] THEN "ON" ELSE "OFF")
               = SpecClassify(NormalRule(jrule), jhash)

\* ------------------------------------------------------ SpecMain: claims
\* the state-machine part of the runtime: everything but the dedup ring
Machine(r) == [r EXCEPT !.Ring = ringReset]

\* C20: a block whose hash is unclassifiable under the active rule leaves
\* the counters, waiting_reverse and the HIT arming unchanged and broadcasts
\* no signal, yet its key is recorded in the dedup ring; a replay of it finds
\* the key and changes nothing at all.
C20_UnclassifiableDiscardedButRecorded ==
    (parg # NoBlockArg /\ ~judgeState(pcfg.JudgeRule, parg.hash).ok) =>
        /\ Machine(mainRt) = Machine(prt)
        /\ sent = <<>>
        /\ ringHas(mainRt.Ring, RingKey(parg.height, parg.hash))
        /\ ringHas(prt.Ring, RingKey(parg.height, parg.hash)) => mainRt = prt

\* an unclassifiable, new block arrived at the height of an armed HIT
C20_Witness ==
    /\ parg # NoBlockArg /\ ~judgeState(pcfg.JudgeRule, parg.hash).ok
    /\ ~ringHas(prt.Ring, RingKey(parg.height, parg.hash))
    /\ prt.HitWaiting /\ parg.height = prt.HitBase + prt.HitOffset

\* the state judgeState gives the block of the step, and the target of the
\* pending HIT as the observer recorded it
StateSeen == judgeState(pcfg.JudgeRule, parg'.hash).state
ArmTarget == pobs.arm[1].base + pobs.arm[1].offset

\* C26: a trigger signal has baseHeight = height = the height of the block and
\* the state that was counted; a HIT signal has height = baseHeight + the
\* offset armed at the trigger, baseHeight = the height of that trigger and
\* the state seen at that height; a missed HIT sends no HIT signal.
C26_SignalsAreConsistent ==
    [][parg' # NoBlockArg =>
          /\ \A i \in 1..Len(sent') :
                /\ IsTrigger(sent'[i]) =>
                      /\ sent'[i].BaseHeight = sent'[i].Height
                      /\ sent'[i].Height = parg'.height
                      /\ sent'[i].State = StateSeen
                      /\ sent'[i].Type = StateSeen
                /\ sent'[i].Type = "HIT" =>
                      /\ pobs.arm # <<>>
                      /\ sent'[i].Height = parg'.height
                      /\ sent'[i].Height = sent'[i].BaseHeight + pobs.arm[1].offset
                      /\ sent'[i].BaseHeight = pobs.arm[1].base
                      /\ sent'[i].State = StateSeen
                      /\ sent'[i].State = pobs.arm[1].expect
          /\ (pobs.arm # <<>> /\ parg'.height = ArmTarget
              /\ StateSeen # pobs.arm[1].expect) => ~HasHit(sent')]_vars

\* a HIT signal two blocks above the trigger that armed it
C26_Witness ==
    \E i \in 1..Len(sent) :
        sent[i].Type = "HIT" /\ sent[i].Height = sent[i].BaseHeight + 2

\* C28: a failed fetch leaves the runtime with lastHeight, lastHash and
\* lastTime as it was, pushes no status and processes no block; after a
\* successful fetch the three fields are those of the fetched block and
\* that status is pushed, also when processBlock drops the block as a
\* duplicate.
C28_StatusIsLatestSuccessfulFetch ==
    [][pobs'.call = "listenerLoop" =>
          /\ pobs'.err # NoErr =>
                /\ mainRt' = mainRt
                /\ pobs'.pushed = <<>> /\ sent' = <<>>
                /\ ~pobs'.ran /\ pobs'.recorded = pobs.recorded
          /\ pobs'.err = NoErr =>
                /\ parg'.height # 0 /\ parg'.hash # <<>>
                /\ Status(mainRt') = [LastHeight |-> parg'.height,
                                      LastHash |-> parg'.hash,
                                      LastTime |-> 3000 * parg'.height]
                /\ pobs'.pushed = <<Status(mainRt')>>]_vars

\* a reply without block data came after the status had been set
C28_Witness ==
    /\ pobs.call = "listenerLoop" /\ pobs.err = "bad block data"
    /\ mainRt.LastHeight > 0 /\ mainRt.LastHash # <<>>

\* S2: the states fed to the machine after the boot
S2States == <<"ON", "ON", "ON", "OFF", "ON", "ON">>

\* C29: after resetRuntime, with the ON rule enabled at threshold 2, the
\* states ON, ON, ON, OFF, ON, ON produce no ON trigger before the second ON
\* that follows the OFF, and produce it there.
C29_BootGateBlocksInitialRun ==
    (/\ pcfg.Rules.On = [Enabled |-> TRUE, Threshold |-> 2]
     /\ pobs.call = "listenerLoop" /\ pobs.ran
     /\ Len(pobs.judged) <= Len(S2States)
     /\ pobs.judged = SubSeq(S2States, 1, Len(pobs.judged)))
    => ((\E i \in 1..Len(sent) : sent[i].Type = "ON")
            <=> Len(pobs.judged) = Len(S2States))

\* C30: a block above the target of the pending HIT clears HitWaiting without
\* a signal, and no block that comes later with the target height produces
\* the HIT of that trigger.
C30_SkippedHitIsCleared ==
    [][/\ (/\ pobs.arm # <<>> /\ mainRt.HitWaiting
           /\ pobs'.call = "listenerLoop" /\ pobs'.ran
           /\ parg'.height > ArmTarget)
          => /\ ~HasHit(sent')
             /\ mainRt'.HitWaiting => HasTrigger(sent')
       /\ pobs.skipped => ~HasHit(sent')]_vars

\* ---------------------------------------------------- SpecWindow: claims
\* the sliding window: the ringSize most recently recorded keys of a log
Window(log) == {log[i] : i \in {j \in 1..Len(log) : j > Len(log) - ringSize}}

\* the key of the block the last tick handed to processBlock
LastKey == RingKey(parg.height, parg.hash)

\* C21 as stated: processBlock passes a block to runStateMachine exactly
\* when its (height, hash) is not among the 50 most recently recorded
\* distinct pairs, and records it exactly then.
C21_FirstOccurrencesReachMachine ==
    [][parg' # NoBlockArg =>
          /\ pobs'.ran <=> LastKey' \notin Window(pobs.recorded)
          /\ pobs'.recorded = IF LastKey' \notin Window(pobs.recorded)
                              THEN Append(pobs.recorded, LastKey')
                              ELSE pobs.recorded]_vars

\* C21 amended: a block reaches runStateMachine exactly when its
\* (height, hash) is not among the 50 most recently recorded distinct pairs
\* and its hash is classifiable under the active rule; it is recorded exactly
\* when it is not among those 50 pairs.
C21_ClassifiableFirstOccurrencesReachMachine ==
    [][parg' # NoBlockArg =>
          /\ pobs'.ran <=> /\ LastKey' \notin Window(pobs.recorded)
                           /\ judgeState(pcfg.JudgeRule, parg'.hash).ok
          /\ pobs'.recorded = IF LastKey' \notin Window(pobs.recorded)
                              THEN Append(pobs.recorded, LastKey')
                              ELSE pobs.recorded]_vars

\* a pair that was recorded, then evicted by ringSize later pairs, came again
\* and reached runStateMachine
C21_Witness ==
    /\ parg # NoBlockArg /\ pobs.ran
    /\ Len(pobs.recorded) > ringSize
    /\ pobs.recorded[Len(pobs.recorded)] = LastKey
    /\ \E i \in 1..(Len(pobs.recorded) - ringSize) : pobs.recorded[i] = LastKey

\* ---------------------------------------------------- SpecSwitch: claims
\* the step is a PUT /api/judge that was answered 200 and changed the rule
SwitchedRule ==
    /\ pobs'.call = "apiSetJudge" /\ pobs'.status = 200
    /\ pcfg'.JudgeRule # pcfg.JudgeRule

\* C22: after a confirmed switch of the classifier rule to a different rule
\* the counters are 0, waiting_reverse is true, hit_waiting is false and the
\* dedup ring is empty; the next block is classified with the new rule.
C22_SwitchClearsRuntimeAndRing ==
    [][/\ SwitchedRule =>
            /\ mainRt'.OnCounter = 0 /\ mainRt'.OffCounter = 0
            /\ mainRt'.WaitingReverse /\ ~mainRt'.HitWaiting
            /\ mainRt'.Ring.index = {}
       /\ (parg' # NoBlockArg /\ pobs'.ran) =>
            pobs'.judged[Len(pobs'.judged)]
                = judgeState(pcfg.JudgeRule, parg'.hash).state]_vars

\* the rule names PUT /api/judge and POST /api/judge/switch accept
JudgeRuleNames == {" lucky", "lucky", "LUCKY", "BIGSMALL", "ODDEVEN"}
SwitchRuleNames == {"lucky", " big", "big", "odd"}

BlockedOnStalled == bpc = "write" /\ peer[cur] = "stalled"

\* C24: broadcastSignal never waits for a subscriber that cannot accept data:
\* such a subscriber delays neither the delivery of the signal to the others
\* nor the return to the block-processing loop.
C24_StalledSubscriberBlocksNobody == ~BlockedOnStalled

\* C25: a subscriber whose write failed in broadcastSignal is closed, no later
\* broadcast writes to it, and it is eventually absent from wsClients.
C25_FailedSubscriberIsRemoved ==
    /\ [](\A c \in failed : dead[c] /\ conn[c] = "closed")
    /\ [](bpc = "write" => cur \notin failed)
    /\ \A c \in Clients : (c \in failed) ~> (c \notin wsClients)

\* ------------------------------------------------------ SpecLife: claims
\* C27: a boot logs ABNORMAL_RESTART exactly when the run before it ended
\* without the removal of the lock file (the first boot has no run before it
\* and logs nothing); the lock file exists while the process runs and is
\* absent after a graceful exit.
C27_AbnormalRestartIffNoGracefulExit ==
    /\ \A i \in 1..Len(logged) : logged[i] <=> (i > 1 /\ ends[i - 1] = "crash")
    /\ running => lockFile
    /\ (~running /\ ends # <<>> /\ ends[Len(ends)] = "exit") => ~lockFile

\* a boot after a crash logged ABNORMAL_RESTART, and the boot after the
\* graceful exit of that run logged nothing
C27_Witness ==
    /\ Len(logged) >= 3 /\ running
    /\ ends[1] = "crash" /\ logged[2]
    /\ ends[2] = "exit" /\ ~logged[3]

\* ------------------------------------------------------- claims, SpecMain
\* the target height of the HIT that rt holds
HitTargetOf(r) == r.HitBase + r.HitOffset

\* C31: with the ON and the OFF rule enabled, a block between the trigger
\* and the target of the pending HIT leaves that HIT as it was: no trigger arms a new HIT
\* over one that has been neither observed nor cleared
C31_PendingHitIsNotOverwritten ==
    (/\ pobs.call = "listenerLoop" /\ pobs.ran
     /\ pcfg.Rules.On.Enabled /\ pcfg.Rules.Off.Enabled
     /\ prt.HitWaiting
     /\ prt.HitBase < parg.height /\ parg.height < HitTargetOf(prt))
    => /\ mainRt.HitWaiting
       /\ mainRt.HitBase = prt.HitBase
       /\ mainRt.HitOffset = prt.HitOffset
       /\ mainRt.HitExpect = prt.HitExpect

\* ------------------------------------------------------ claims, SpecRules
\* C32: a call of apiSetRules that changes the rules leaves the counters 0,
\* waiting_reverse true and hit_waiting false
C32_RulesChangeResetsRuntime ==
    [][(/\ pobs'.call = "apiSetRules" /\ pobs'.status = 200
        /\ pcfg'.Rules # pcfg.Rules)
       => /\ mainRt'.OnCounter = 0 /\ mainRt'.OffCounter = 0
          /\ mainRt'.WaitingReverse /\ ~mainRt'.HitWaiting]_vars

\* ----------------------------------------------------- claims, SpecListen
\* the loops that are in fetchNowBlock or in processBlock
Busy == {l \in Loops : loopPc[l] \in {"fetch", "process"}}

\* C33: at most one listenerLoop goroutine is fetching or executing
\* processBlock at a time
C33_OneLoopAtATime == Cardinality(Busy) <= 1

\* the listener that listenCan names runs and its context is not cancelled
ListenerRuns ==
    /\ listenCan # 0
    /\ loopPc[listenCan] \in {"select", "fetch", "process"}
    /\ listenCan \notin cancelledCtx

\* C37: once every apiSetAPIKeys call has completed and the last one stored
\* at least one key, a listener loop is running and rt.Listening is true
C37_ListenerFollowsKeys ==
    (/\ \A h \in Calls : callPc[h] \in {"idle", "done"}
     /\ \E h \in Calls : callPc[h] = "done" /\ callReq[h] >= 0
     /\ apiKeys >= 1)
    => ListenerRuns /\ listening

\* ---------------------------------------------------- claims, SpecReplace
\* the fetchers of the snapshot that FetchAny has to poll
EnabledOf(list) == {i \in 1..Len(list) : list[i].Enabled}

\* C34: the snapshot of a FetchAny call is the list d.fetchers held when
\* snapshot took d.mu, whole, the tasks of the call are the enabled fetchers
\* of that list, and no step of a ReplaceAll changes the snapshot or the
\* tasks of the call
C34_ReplaceAllIsAtomic ==
    [][/\ dpc' \in {"loop", "done"}
          => /\ fs' = held'[snapAt']
             /\ Len(fs') > 0 => Launched' = EnabledOf(held'[snapAt'])
       /\ replPc' # replPc => fs' = fs /\ task' = task]_vars

\* a ReplaceAll has replaced the list after the snapshot of a call whose
\* tasks are still running
C34_Witness ==
    /\ dpc = "loop" /\ Len(held) > snapAt /\ fetchers # fs
    /\ replPc = "idle"
    /\ \E i \in Launched : task[i] = "running"

\* ----------------------------------------------- claims, SpecDispatchFair
AllTasksDone == \A i \in Launched : task[i] = "done"

FreshOut ==
    runStateMachine(RuntimeState, raceObs.height, raceObs.state, raceObs.rules).out

\* C36: a block classified under one rule is not counted on top of a Runtime
\* that blocks of another rule have built: when the blocks before it were all
\* of another rule, the signals it sends are those of a Runtime just reset
C36_SwitchIsAtomicForBlocks ==
    (/\ raceObs.by # "" /\ raceObs.acc # {} /\ raceObs.by \notin raceObs.acc
     /\ raceObs.out # <<>>)
    => raceObs.out = FreshOut

\* ------------------------------------------------------- claims, SpecRing
\* the keys of a list of blocks, in its order
KeysOf(list) == [i \in 1..Len(list) |-> Key(list[i])]

Reverse(seq) == [i \in 1..Len(seq) |-> seq[Len(seq) + 1 - i]]

\* C38: after any calls of AddIfNew and Reset the buffer holds at most cap
\* blocks, seen is the set of their pairs and no pair is buffered twice, List
\* is the blocks inserted last, newest first, and after Reset the buffer and
\* seen are empty
C38_RingInvariant ==
    /\ Len(ring.buf) <= ring.cap
    /\ ring.seen = Range(KeysOf(ring.buf))
    /\ Cardinality(ring.seen) = Len(ring.buf)
    /\ KeysOf(List(ring)) = Reverse(LastN(rlog, Len(ring.buf)))
    /\ rcall = "Reset" => ring.buf = <<>> /\ ring.seen = {}

\* the buffer is full, a block was evicted and the evicted pair was inserted
\* again
C38_Witness ==
    /\ rcall = "AddIfNew" /\ rret
    /\ Len(ring.buf) = ring.cap
    /\ Len(rlog) > ring.cap
    /\ Key(rarg) \in Range(SubSeq(rprev, 1, Len(rprev) - 1))

\* ----------------------------------------------------------- claims, Spec
\* the machines of the manager that are disabled
Disabled == {id \in DOMAIN machines : ~machines[id].Config.Enabled}

\* the signals ProcessBlock collects from a manager that holds the machines
\* ids only
SignalsOf(ids, height, state) ==
    {Process(machines[id], height, state).sig : id \in ids} \ {Nil}

\* C39: ProcessBlock leaves a disabled machine as it was and collects no
\* signal from it, and the signals it returns are those of the manager
\* without the disabled machines
C39_DisabledMachineIsInert ==
    [][mcall' = "ProcessBlock"
       => /\ \A id \in Disabled :
                /\ machines'[id] = machines[id]
                /\ \A i \in 1..Len(signals') : signals'[i].MachineID # id
          /\ Range(signals')
                = SignalsOf(DOMAIN machines \ Disabled, marg'.height, marg'.state)
          /\ Len(signals') = Cardinality(Range(signals'))]_vars

\* a block for a disabled machine beside an enabled one that sends a signal
C39_Witness ==
    /\ mcall = "ProcessBlock"
    /\ Disabled # {} /\ Disabled # DOMAIN machines
    /\ Len(signals) >= 1
    /\ \E id \in Disabled : machines[id].Config.TriggerState = marg.state

====
